---------------------------- MODULE Spec2Model ----------------------------
(***************************************************************************)
(* A model of the pump-calculator computation engine:                      *)
(*   src/utils/hydraulic_calcs.py  (HydraulicCalculator)                   *)
(*   src/utils/pump_calcs.py       (PumpCalculator)                        *)
(*                                                                         *)
(* Numbers.  Python floats are modelled as exact rationals <<n, d>> in     *)
(* lowest terms with d > 0; <<0, 0>> is NaN.  TLC's integers are 32 bits   *)
(* wide and TLC stops with an error on overflow, so every input set below  *)
(* is chosen to keep numerators and denominators inside that range.        *)
(* The results of log10, sqrt and ** with a fractional exponent are not    *)
(* rationals: where the code computes one, the model takes the value from  *)
(* an oracle (any value of a finite grid, or NaN), which over-approximates *)
(* what the floating-point evaluation can produce.                         *)
(***************************************************************************)
EXTENDS Integers, Sequences, FiniteSets, TLC

VARIABLES
    request,          \* solver: the call being made, [op, args]
    outcome,          \* solver: what the call produced (None before it ran)
    cb,               \* Colebrook loop, one iteration per step
    heap,             \* engine: the dict objects allocated so far
    curve_data,       \* engine: PumpCalculator.curve_data (a heap ref, NoRef for None)
    efficiency_data,  \* engine: PumpCalculator.efficiency_data
    thread            \* engine: the calls in flight, one per thread

vars == <<request, outcome, cb, heap, curve_data, efficiency_data, thread>>

None == "None"

---------------------------------------------------------------------------
(* Exact rational arithmetic standing for float arithmetic.                *)

Abs(x) == IF x < 0 THEN -x ELSE x

RECURSIVE GCD(_, _)
GCD(a, b) == IF b = 0 THEN a ELSE GCD(b, a % b)

NaN == <<0, 0>>

IsNaN(x) == x[2] = 0

Rat(n, d) ==
    LET g == GCD(Abs(n), Abs(d))
        s == IF d < 0 THEN -1 ELSE 1
    IN  <<s * (n \div g), s * (d \div g)>>

Num(n) == <<n, 1>>

RNeg(x) == <<-x[1], x[2]>>

RMul(x, y) ==
    IF IsNaN(x) \/ IsNaN(y) THEN NaN
    ELSE LET g1 == GCD(Abs(x[1]), y[2])
             g2 == GCD(Abs(y[1]), x[2])
         IN  <<(x[1] \div g1) * (y[1] \div g2), (x[2] \div g2) * (y[2] \div g1)>>

\* x / y for y # 0 (a zero divisor is the caller's case: Python raises)
RDiv(x, y) ==
    IF IsNaN(x) \/ IsNaN(y) THEN NaN
    ELSE RMul(x, IF y[1] < 0 THEN <<-y[2], -y[1]>> ELSE <<y[2], y[1]>>)

RAdd(x, y) ==
    IF IsNaN(x) \/ IsNaN(y) THEN NaN
    ELSE LET g == GCD(x[2], y[2])
         IN  Rat(x[1] * (y[2] \div g) + y[1] * (x[2] \div g), (x[2] \div g) * y[2])

RSub(x, y) == RAdd(x, RNeg(y))

RSq(x) == RMul(x, x)

\* comparisons; every comparison with NaN is false, as for floats
RLt(x, y) ==
    /\ ~IsNaN(x) /\ ~IsNaN(y)
    /\ LET g == GCD(x[2], y[2])
       IN  x[1] * (y[2] \div g) < y[1] * (x[2] \div g)

RLe(x, y) == ~IsNaN(x) /\ ~IsNaN(y) /\ ~RLt(y, x)

RAbs(x) == <<Abs(x[1]), x[2]>>

Zero == Num(0)
One  == Num(1)

\* outcomes of a call: a returned value or a raised exception, with the
\* advisories (warnings.warn) emitted on the way and the helpers invoked
Return(v, w, tr) == [kind |-> "return", value |-> v, exc |-> None, warnings |-> w, trace |-> tr]
Raise(e, w, tr)  == [kind |-> "raise", value |-> None, exc |-> e, warnings |-> w, trace |-> tr]

---------------------------------------------------------------------------
(* Fluid Property Table: hydraulic_calcs.py, get_kinematic_viscosity and   *)
(* get_water_density.                                                      *)

\* kinematic viscosity of water, m2/s, by anchor temperature in C
viscosity_table ==
    (0 :> Rat(1787, 10^9)) @@ (5 :> Rat(1519, 10^9)) @@ (10 :> Rat(1307, 10^9)) @@
    (15 :> Rat(1139, 10^9)) @@ (20 :> Rat(1004, 10^9)) @@ (25 :> Rat(893, 10^9)) @@
    (30 :> Rat(801, 10^9)) @@ (40 :> Rat(658, 10^9)) @@ (50 :> Rat(553, 10^9)) @@
    (60 :> Rat(475, 10^9)) @@ (70 :> Rat(413, 10^9)) @@ (80 :> Rat(364, 10^9)) @@
    (90 :> Rat(326, 10^9)) @@ (100 :> Rat(294, 10^9))

\* density of water, kg/m3, by anchor temperature in C
density_table ==
    (0 :> Rat(9998, 10)) @@ (5 :> Rat(10000, 10)) @@ (10 :> Rat(9997, 10)) @@
    (15 :> Rat(9991, 10)) @@ (20 :> Rat(9982, 10)) @@ (25 :> Rat(9970, 10)) @@
    (30 :> Rat(9957, 10)) @@ (40 :> Rat(9922, 10)) @@ (50 :> Rat(9880, 10)) @@
    (60 :> Rat(9832, 10)) @@ (70 :> Rat(9778, 10)) @@ (80 :> Rat(9718, 10)) @@
    (90 :> Rat(9653, 10)) @@ (100 :> Rat(9584, 10))

\* sorted(table.keys())
temps == <<0, 5, 10, 15, 20, 25, 30, 40, 50, 60, 70, 80, 90, 100>>

\* the lookup both functions share: exact anchor, else the first bracketing
\* pair of anchors interpolated, else the value at temps[-1]
TableLookup(table, temperature) ==
    IF \E i \in 1..Len(temps) : temperature = Num(temps[i])
    THEN table[temperature[1]]
    ELSE LET hits == {i \in 1..(Len(temps) - 1) :
                         /\ RLe(Num(temps[i]), temperature)
                         /\ RLe(temperature, Num(temps[i + 1]))}
         IN  IF hits # {}
             THEN LET i  == CHOOSE j \in hits : \A k \in hits : j <= k
                      t1 == Num(temps[i])
                      t2 == Num(temps[i + 1])
                      v1 == table[temps[i]]
                      v2 == table[temps[i + 1]]
                  IN  RAdd(v1, RDiv(RMul(RSub(v2, v1), RSub(temperature, t1)),
                                    RSub(t2, t1)))
             ELSE table[temps[Len(temps)]]

TemperatureWarning == "Temperature outside typical range (0-100 C)"

\* the advisories get_kinematic_viscosity emits
ViscosityWarnings(temperature) ==
    IF RLt(temperature, Num(0)) \/ RLt(Num(100), temperature)
    THEN <<TemperatureWarning>>
    ELSE <<>>

get_kinematic_viscosity(temperature) ==
    Return(TableLookup(viscosity_table, temperature),
           ViscosityWarnings(temperature), <<>>)

\* get_water_density has no range check and calls warnings.warn nowhere
get_water_density(temperature) ==
    Return(TableLookup(density_table, temperature), <<>>, <<>>)

---------------------------------------------------------------------------
(* Hydraulic Solver: the closed-form helpers.                              *)

\* flow rates and areas are carried in units of pi/4 (m3/s and m2), so that
\* area = np.pi * diameter**2 / 4 is the rational diameter**2
PipeArea(diameter) == RSq(diameter)

\* Python float division: a zero area raises ZeroDivisionError
velocity_from_flow(flow_rate, diameter) ==
    LET area == PipeArea(diameter)
    IN  IF area = Zero
        THEN Raise("ZeroDivisionError", <<>>, <<>>)
        ELSE Return(RDiv(flow_rate, area), <<>>, <<>>)

\* the check without its diameter test
reynolds_number_diameter_unchecked(velocity, diameter, viscosity) ==
    IF RLe(velocity, Zero) \/ RLe(viscosity, Zero)
    THEN Raise("ValueError", <<>>, <<>>)
    ELSE Return(RDiv(RMul(velocity, diameter), viscosity), <<>>, <<>>)

reynolds_number(velocity, diameter, viscosity) ==
    IF RLe(velocity, Zero) \/ RLe(diameter, Zero) \/ RLe(viscosity, Zero)
    THEN Raise("ValueError", <<>>, <<>>)
    ELSE Return(RDiv(RMul(velocity, diameter), viscosity), <<>>, <<>>)

GRAVITY == Rat(981, 100)

\* the float values a friction-factor formula can evaluate to: a grid of
\* spacing 0.005 from 0.02 upwards, and NaN (log10 of a negative argument)
FMax == 1

FGrid == {Rat(4 + k, 200) : k \in 0..FMax} \cup {NaN}

\* the iterates a call can reach from the values in S
RECURSIVE Orbit(_, _)
Orbit(oracle, S) ==
    LET T == S \cup {oracle.g[f] : f \in S}
    IN  IF T = S THEN S ELSE Orbit(oracle, T)

\* an oracle fixes, for one call, the value of the Swamee-Jain formula
\* (also Colebrook's initial guess) and the map f_old -> f of one Colebrook
\* iteration; both are deterministic functions of the call's arguments.  The
\* map is never evaluated off the orbit of the initial guess: it is left the
\* identity there
Oracles ==
    {oracle \in [sj : FGrid, g : [FGrid -> FGrid]] :
        \A f \in FGrid \ Orbit(oracle, {oracle.sj}) : oracle.g[f] = f}

NoOracle == [sj |-> NaN, g |-> [f \in FGrid |-> NaN]]

DefaultTolerance == Rat(1, 10^6)

DefaultMaxIter == 100

\* f = 0.25 / log10(relative_roughness/3.7 + 5.74/reynolds**0.9)**2
SwameeJainFormula(oracle) == oracle.sj

friction_factor_swamee_jain(reynolds, roughness, diameter, oracle) ==
    IF diameter = Zero
    THEN Raise("ZeroDivisionError", <<>>, <<>>)
    ELSE Return(SwameeJainFormula(oracle), <<>>, <<>>)

\* f = 0.25 / log10(term1 + term2)**2, computed from f_old
ColebrookIterate(oracle, f_old) == oracle.g[f_old]

\* abs(f - f_old) < tolerance
ColebrookConverged(f, f_old, tolerance) == RLt(RAbs(RSub(f, f_old)), tolerance)

\* a loop bound that lets one pass too many begin
ColebrookContinuesInclusive(iteration, max_iter) == iteration <= max_iter

\* for iteration in range(max_iter): another pass is begun
ColebrookContinues(iteration, max_iter) == iteration < max_iter

\* a loop that falls through to "return f"
ColebrookReturnsLast(f) == Return(f, <<>>, <<>>)

\* after the loop: raise RuntimeError
ColebrookExhausted(f) == Raise("RuntimeError", <<>>, <<>>)

\* the locals of a call once its arguments are validated: relative_roughness
\* and the initial guess f_old (the Swamee-Jain value); iteration counts the
\* passes begun
ColebrookEntry(tolerance, max_iter, oracle) ==
    [pc |-> "loop", oracle |-> oracle, f_old |-> SwameeJainFormula(oracle),
     f |-> NaN, iteration |-> 0, tolerance |-> tolerance, max_iter |-> max_iter,
     result |-> [kind |-> None]]

\* one pass of the loop body: compute f, return it if converged, else f_old = f
ColebrookBody(c) ==
    LET f == ColebrookIterate(c.oracle, c.f_old)
    IN  IF ColebrookConverged(f, c.f_old, c.tolerance)
        THEN [c EXCEPT !.pc = "returned", !.f = f, !.iteration = c.iteration + 1,
                       !.result = Return(f, <<>>, <<>>)]
        ELSE [c EXCEPT !.f = f, !.f_old = f, !.iteration = c.iteration + 1]

\* the statement after the loop
ColebrookEnd(c) ==
    LET r == ColebrookExhausted(c.f_old)
    IN  [c EXCEPT !.pc = IF r.kind = "raise" THEN "raised" ELSE "returned",
                  !.result = r]

ColebrookPass(c) ==
    IF ColebrookContinues(c.iteration, c.max_iter) THEN ColebrookBody(c)
    ELSE ColebrookEnd(c)

\* the loop run from c for at most n passes, stopping when the call ends;
\* the first half of the passes is run before the second
RECURSIVE ColebrookLoop(_, _)
ColebrookLoop(c, n) ==
    IF c.pc # "loop" \/ n = 0 THEN c
    ELSE IF n = 1 THEN ColebrookPass(c)
    ELSE LET mid == ColebrookLoop(c, n \div 2)
         IN  IF mid.pc # "loop" THEN mid ELSE ColebrookLoop(mid, n - n \div 2)

\* max_iter >= 0 in every call modelled: max_iter passes and the end
friction_factor_colebrook(reynolds, roughness, diameter, tolerance, max_iter, oracle) ==
    IF RLt(reynolds, Num(4000))
    THEN Raise("ValueError", <<>>, <<>>)
    ELSE IF diameter = Zero
    THEN Raise("ZeroDivisionError", <<>>, <<>>)
    ELSE ColebrookLoop(ColebrookEntry(tolerance, max_iter, oracle), max_iter + 1).result

head_loss_darcy_weisbach(friction_factor, length, diameter, velocity) ==
    RDiv(RMul(RMul(friction_factor, RDiv(length, diameter)), RSq(velocity)),
         RMul(Num(2), GRAVITY))

\* the velocity head taken as v/2g
minor_loss_linear(k_factor, velocity) ==
    RDiv(RMul(k_factor, velocity), RMul(Num(2), GRAVITY))

minor_loss(k_factor, velocity) ==
    RDiv(RMul(k_factor, RSq(velocity)), RMul(Num(2), GRAVITY))

\* velocity * area, in the units of PipeArea
flow_from_velocity(velocity, diameter) == RMul(velocity, PipeArea(diameter))

\* the pressure divided by the density alone
pressure_to_head_per_density(pressure, density) ==
    IF density = Zero THEN Raise("ZeroDivisionError", <<>>, <<>>)
    ELSE Return(RDiv(pressure, density), <<>>, <<>>)

\* pressure / (density * GRAVITY) on Python floats: a zero divisor raises
pressure_to_head(pressure, density) ==
    IF RMul(density, GRAVITY) = Zero THEN Raise("ZeroDivisionError", <<>>, <<>>)
    ELSE Return(RDiv(pressure, RMul(density, GRAVITY)), <<>>, <<>>)

head_to_pressure(head, density) == RMul(RMul(density, GRAVITY), head)

\* sum([...]): a left fold from 0
RECURSIVE SumSeq(_)
SumSeq(xs) ==
    IF xs = <<>> THEN Zero
    ELSE RAdd(SumSeq(SubSeq(xs, 1, Len(xs) - 1)), xs[Len(xs)])

\* the upper boundary taken with <= : Re = 4000 stays Transitional
FlowRegimeClosedAbove(reynolds) ==
    IF RLt(reynolds, Num(2300)) THEN "Laminar"
    ELSE IF RLe(reynolds, Num(4000)) THEN "Transitional"
    ELSE "Turbulent"

\* a branch without the Transitional case: every Re >= 2300 is Turbulent
FlowRegimeNoTransition(reynolds) ==
    IF RLt(reynolds, Num(2300)) THEN "Laminar" ELSE "Turbulent"

\* the regime branch of calculate_system
FlowRegime(reynolds) ==
    IF RLt(reynolds, Num(2300)) THEN "Laminar"
    ELSE IF RLt(reynolds, Num(4000)) THEN "Transitional"
    ELSE "Turbulent"

\* the friction factor of each branch; trace names the method invoked
FrictionFactor(regime, reynolds, roughness, diameter, oracle) ==
    CASE regime = "Laminar" ->
            Return(RDiv(Num(64), reynolds), <<>>, <<"64/Re">>)
      [] regime = "Transitional" ->
            [friction_factor_swamee_jain(reynolds, roughness, diameter, oracle)
                EXCEPT !.trace = <<"friction_factor_swamee_jain">>]
      [] OTHER ->
            [friction_factor_colebrook(reynolds, roughness, diameter,
                                       DefaultTolerance, DefaultMaxIter, oracle)
                EXCEPT !.trace = <<"friction_factor_colebrook">>]

calculate_system(flow_rate, diameter, length, roughness, minor_losses_k, temperature, elevation_change, oracle) ==
    LET vel == velocity_from_flow(flow_rate, diameter)
    IN  IF vel.kind = "raise"
        THEN Raise(vel.exc, <<>>, <<"velocity_from_flow">>)
        ELSE
    LET velocity  == vel.value
        visc      == get_kinematic_viscosity(temperature)
        dens      == get_water_density(temperature)
        w         == visc.warnings \o dens.warnings
        tr        == <<"velocity_from_flow", "get_kinematic_viscosity",
                       "get_water_density", "reynolds_number">>
        re        == reynolds_number(velocity, diameter, visc.value)
    IN  IF re.kind = "raise"
        THEN Raise(re.exc, w, tr)
        ELSE
    LET reynolds    == re.value
        flow_regime == FlowRegime(reynolds)
        ff          == FrictionFactor(flow_regime, reynolds, roughness, diameter, oracle)
    IN  IF ff.kind = "raise"
        THEN Raise(ff.exc, w, tr \o ff.trace)
        ELSE
    LET friction_factor    == ff.value
        head_loss_friction == head_loss_darcy_weisbach(friction_factor, length,
                                                       diameter, velocity)
        head_loss_minor    == SumSeq([i \in 1..Len(minor_losses_k) |->
                                         minor_loss(minor_losses_k[i], velocity)])
        total_head_loss    == RAdd(RAdd(head_loss_friction, head_loss_minor),
                                   elevation_change)
        pressure_drop      == RDiv(head_to_pressure(total_head_loss, dens.value),
                                   Num(1000))
    IN  Return([velocity |-> velocity,
                reynolds |-> reynolds,
                flow_regime |-> flow_regime,
                friction_factor |-> friction_factor,
                head_loss_friction |-> head_loss_friction,
                head_loss_minor |-> head_loss_minor,
                elevation_head |-> elevation_change,
                total_head_loss |-> total_head_loss,
                pressure_drop |-> pressure_drop,
                density |-> dens.value,
                viscosity |-> visc.value],
               w, tr \o ff.trace)

---------------------------------------------------------------------------
(* Pump Performance Model: pump_calcs.py, the static methods.              *)

hydraulic_power(flow_rate, head, density) ==
    RMul(RMul(RMul(density, GRAVITY), flow_rate), head)

\* the upper limit taken with >= : an efficiency of exactly 1 is refused
shaft_power_refuses_one(hydraulic_pow, efficiency) ==
    IF RLe(efficiency, Zero) \/ RLe(One, efficiency)
    THEN Raise("ValueError", <<>>, <<>>)
    ELSE Return(RDiv(hydraulic_pow, efficiency), <<>>, <<>>)

shaft_power(hydraulic_pow, efficiency) ==
    IF RLe(efficiency, Zero) \/ RLt(One, efficiency)
    THEN Raise("ValueError", <<>>, <<>>)
    ELSE Return(RDiv(hydraulic_pow, efficiency), <<>>, <<>>)

\* speed2 / speed1 on Python floats: a zero speed1 raises
affinity_laws_flow(flow1, speed1, speed2) ==
    IF ~IsNaN(speed1) /\ speed1[1] = 0 THEN Raise("ZeroDivisionError", <<>>, <<>>)
    ELSE Return(RMul(flow1, RDiv(speed2, speed1)), <<>>, <<>>)

affinity_laws_head(head1, speed1, speed2) ==
    IF ~IsNaN(speed1) /\ speed1[1] = 0 THEN Raise("ZeroDivisionError", <<>>, <<>>)
    ELSE Return(RMul(head1, RSq(RDiv(speed2, speed1))), <<>>, <<>>)

\* the speed ratio squared in place of cubed
affinity_laws_power_squared(power1, speed1, speed2) ==
    IF ~IsNaN(speed1) /\ speed1[1] = 0 THEN Raise("ZeroDivisionError", <<>>, <<>>)
    ELSE Return(RMul(power1, RSq(RDiv(speed2, speed1))), <<>>, <<>>)

affinity_laws_power(power1, speed1, speed2) ==
    IF ~IsNaN(speed1) /\ speed1[1] = 0 THEN Raise("ZeroDivisionError", <<>>, <<>>)
    ELSE LET ratio == RDiv(speed2, speed1)
         IN  Return(RMul(power1, RMul(RSq(ratio), ratio)), <<>>, <<>>)

\* defaults motor_efficiency = 0.95, safety_factor = 1.15
motor_power(shaft_pow) == RMul(RDiv(shaft_pow, Rat(95, 100)), Rat(115, 100))

\* density > 0 in every call modelled (density = 0 raises ZeroDivisionError)
npsh_available(pressure_suction, vapor_pressure, velocity_suction, elevation, density) ==
    LET pressure_head == RDiv(pressure_suction, RMul(density, GRAVITY))
        vapor_head    == RDiv(vapor_pressure, RMul(density, GRAVITY))
        velocity_head == RDiv(RSq(velocity_suction), RMul(Num(2), GRAVITY))
    IN  RAdd(RAdd(RSub(pressure_head, vapor_head), velocity_head), elevation)

\* the values the two empirical formulas (np.sqrt, ** (4/3), ** 0.75) can
\* evaluate to for positive arguments: taken from an oracle, as for log10
NpshGrid == {Rat(1, 2), Num(2), Num(6)}

NsGrid == {Num(10), Num(20), Num(30), Num(60), Num(100), Num(200), Num(300)}

PumpOracles == [npsh_r : NpshGrid, ns : NsGrid]

npsh_required_estimate(flow_rate, speed, oracle) == oracle.npsh_r

specific_speed(flow_rate, head, speed, oracle) == oracle.ns

\* the first breakpoint taken with <= : Ns = 20 stays in the lowest band
classify_pump_type_closed_at_20(ns) ==
    IF RLe(ns, Num(20)) THEN "Centrifuga radial de baja velocidad especifica"
    ELSE IF RLt(ns, Num(40)) THEN "Centrifuga radial"
    ELSE IF RLt(ns, Num(80)) THEN "Centrifuga radial-mixta"
    ELSE IF RLt(ns, Num(150)) THEN "Centrifuga de flujo mixto"
    ELSE IF RLt(ns, Num(300)) THEN "Centrifuga de flujo axial"
    ELSE "Bomba de flujo axial (helice)"

classify_pump_type(ns) ==
    IF RLt(ns, Num(20)) THEN "Centrifuga radial de baja velocidad especifica"
    ELSE IF RLt(ns, Num(40)) THEN "Centrifuga radial"
    ELSE IF RLt(ns, Num(80)) THEN "Centrifuga radial-mixta"
    ELSE IF RLt(ns, Num(150)) THEN "Centrifuga de flujo mixto"
    ELSE IF RLt(ns, Num(300)) THEN "Centrifuga de flujo axial"
    ELSE "Bomba de flujo axial (helice)"

DefaultSafetyMargin == Rat(1, 2)

\* the verdict taken with > : a margin equal to the safety margin is unsafe
cavitation_check_strict(npsh_a, npsh_r, safety_margin) ==
    LET margin == RSub(npsh_a, npsh_r)
        safe   == RLt(safety_margin, margin)
        status == IF ~safe THEN "RIESGO DE CAVITACION"
                  ELSE IF RLt(margin, One) THEN "ADVERTENCIA: Margen bajo"
                  ELSE "SEGURO"
    IN  [safe |-> safe, margin |-> margin, status |-> status,
         recommendation |-> "", npsh_available |-> npsh_a, npsh_required |-> npsh_r]

\* the low-margin tier taken with <= : a margin of exactly 1.0 is still low
cavitation_check_low_at_one(npsh_a, npsh_r, safety_margin) ==
    LET margin == RSub(npsh_a, npsh_r)
        safe   == RLe(safety_margin, margin)
        status == IF ~safe THEN "RIESGO DE CAVITACION"
                  ELSE IF RLe(margin, One) THEN "ADVERTENCIA: Margen bajo"
                  ELSE "SEGURO"
    IN  [safe |-> safe, margin |-> margin, status |-> status,
         recommendation |-> "", npsh_available |-> npsh_a, npsh_required |-> npsh_r]

cavitation_check(npsh_a, npsh_r, safety_margin) ==
    LET margin == RSub(npsh_a, npsh_r)
        safe   == RLe(safety_margin, margin)
        status == IF ~safe THEN "RIESGO DE CAVITACION"
                  ELSE IF RLt(margin, One) THEN "ADVERTENCIA: Margen bajo"
                  ELSE "SEGURO"
        recommendation ==
            IF ~safe THEN "Aumentar NPSH disponible o seleccionar bomba con menor NPSH requerido"
            ELSE IF RLt(margin, One) THEN "Considerar aumentar el NPSH disponible"
            ELSE "Condiciones de succion adecuadas"
    IN  [safe |-> safe, margin |-> margin, status |-> status,
         recommendation |-> recommendation,
         npsh_available |-> npsh_a, npsh_required |-> npsh_r]

\* defaults safety_factor = 0.3 and 1.2
minimum_flow(bep_flow) == RMul(bep_flow, Rat(3, 10))

maximum_flow(bep_flow) == RMul(bep_flow, Rat(12, 10))

\* f"{x:.1f}": x to the nearest tenth, ties to even
Format1(x) ==
    LET n10 == RMul(x, Num(10))
        fl  == n10[1] \div n10[2]
        r2  == 2 * (n10[1] - fl * n10[2])
        up  == r2 > n10[2] \/ (r2 = n10[2] /\ fl % 2 = 1)
    IN  Rat(IF up THEN fl + 1 ELSE fl, 10)

\* pump_specs is a record that may lack 'efficiency' and 'speed'
SpecGet(pump_specs, key, default) ==
    IF key \in DOMAIN pump_specs THEN pump_specs[key] ELSE default

complete_pump_analysis(flow_rate, total_head, suction_conditions, pump_specs, density, oracle) ==
    LET efficiency    == SpecGet(pump_specs, "efficiency", Rat(75, 100))
        hydraulic_pow == hydraulic_power(flow_rate, total_head, density)
        sp            == shaft_power(hydraulic_pow, efficiency)
    IN  IF sp.kind = "raise"
        THEN Raise(sp.exc, <<>>, <<"hydraulic_power", "shaft_power">>)
        ELSE
    LET shaft_pow  == sp.value
        motor_pow  == motor_power(shaft_pow)
        npsh_a     == npsh_available(suction_conditions.pressure_suction,
                                     suction_conditions.vapor_pressure,
                                     suction_conditions.velocity_suction,
                                     suction_conditions.elevation, density)
        speed      == SpecGet(pump_specs, "speed", Num(1750))
        npsh_r     == npsh_required_estimate(flow_rate, speed, oracle)
        cavitation == cavitation_check(npsh_a, npsh_r, DefaultSafetyMargin)
        ns         == specific_speed(flow_rate, total_head, speed, oracle)
        pump_type  == classify_pump_type(ns)
        min_flow   == minimum_flow(flow_rate)
        max_flow   == maximum_flow(flow_rate)
    IN  Return([hydraulic_power_kw |-> RDiv(hydraulic_pow, Num(1000)),
                shaft_power_kw |-> RDiv(shaft_pow, Num(1000)),
                motor_power_kw |-> RDiv(motor_pow, Num(1000)),
                motor_power_hp |-> RDiv(motor_pow, Rat(7457, 10)),
                efficiency |-> efficiency,
                npsh_available |-> npsh_a,
                npsh_required |-> npsh_r,
                cavitation_check |-> cavitation,
                specific_speed |-> ns,
                pump_type |-> pump_type,
                minimum_flow |-> min_flow,
                maximum_flow |-> max_flow,
                operating_range |-> <<Format1(RMul(min_flow, Num(3600))),
                                      Format1(RMul(max_flow, Num(3600)))>>],
               <<>>,
               <<"hydraulic_power", "shaft_power", "motor_power", "npsh_available",
                 "npsh_required_estimate", "cavitation_check", "specific_speed",
                 "classify_pump_type", "minimum_flow", "maximum_flow">>)

---------------------------------------------------------------------------
(* Pump Curve & Operating-Point Engine: pump_calcs.py, generate_pump_curve *)
(* and operating_point.                                                    *)

\* np.linspace(0, stop, num): num samples i * stop/(num - 1), the last one stop
\* np.linspace(stop, 0, num): the end points exchanged
linspace_descending(stop, num) ==
    IF num = 1 THEN <<stop>>
    ELSE [i \in 1..num |->
             IF i = 1 THEN stop ELSE RMul(Num(num - i), RDiv(stop, Num(num - 1)))]

linspace(stop, num) ==
    IF num = 1 THEN <<Zero>>
    ELSE [i \in 1..num |->
             IF i = num THEN stop ELSE RMul(Num(i - 1), RDiv(stop, Num(num - 1)))]

\* np.exp(x) for x <= 0, evaluated in thousandths: the Taylor series of
\* exp(-x) summed in fixed point, then inverted; exp(0) is exactly 1
RECURSIVE ExpSeries(_, _, _, _)
ExpSeries(z, k, term, acc) ==
    IF term = 0 THEN acc
    ELSE ExpSeries(z, k + 1, (term * z) \div (k * 10^3), acc + term)

Exp(x) ==
    LET z == ((-x[1]) * 10^3) \div x[2]
    IN  Rat(10^6 \div ExpSeries(z, 1, 10^3, 0), 10^3)

\* np.minimum in place of np.maximum
Minimum(x, y) == IF RLt(x, y) THEN x ELSE y

\* np.maximum(h, 0)
Maximum(x, y) == IF RLt(x, y) THEN y ELSE x

\* the upper bound of np.clip dropped
ClipBelowOnly(x, lo, hi) == IF RLt(x, lo) THEN lo ELSE x

\* np.clip(x, lo, hi)
Clip(x, lo, hi) == IF RLt(x, lo) THEN lo ELSE IF RLt(hi, x) THEN hi ELSE x

\* a power curve scaled from power_bep: power_bep * Q / q_bep at each sample
PumpCurvePowerFromBep(q_bep, h_bep, power_bep, efficiency_bep, num_points) ==
    LET q_range   == linspace(RMul(Rat(15, 10), q_bep), num_points)
        h_shutoff == RMul(h_bep, Rat(115, 100))
        a         == RDiv(RSub(h_shutoff, h_bep), RSq(q_bep))
        h_range   == [i \in 1..num_points |->
                         Maximum(RSub(h_shutoff, RMul(a, RSq(q_range[i]))), Zero)]
        q_normalized == [i \in 1..num_points |-> RDiv(q_range[i], q_bep)]
        efficiency_range ==
            [i \in 1..num_points |->
                Clip(RMul(efficiency_bep,
                          Exp(RMul(Rat(-5, 10),
                                   RSq(RDiv(RSub(q_normalized[i], One), Rat(4, 10)))))),
                     Rat(1, 100), One)]
        power_range == [i \in 1..num_points |-> RMul(power_bep, q_normalized[i])]
    IN  [flow |-> q_range, head |-> h_range, power |-> power_range,
         efficiency |-> efficiency_range, q_bep |-> q_bep, h_bep |-> h_bep]

\* the dict generate_pump_curve builds (q_bep # 0; power_bep is not read)
PumpCurve(q_bep, h_bep, power_bep, efficiency_bep, num_points) ==
    LET q_range   == linspace(RMul(Rat(15, 10), q_bep), num_points)
        h_shutoff == RMul(h_bep, Rat(115, 100))
        a         == RDiv(RSub(h_shutoff, h_bep), RSq(q_bep))
        h_range   == [i \in 1..num_points |->
                         Maximum(RSub(h_shutoff, RMul(a, RSq(q_range[i]))), Zero)]
        q_normalized == [i \in 1..num_points |-> RDiv(q_range[i], q_bep)]
        efficiency_range ==
            [i \in 1..num_points |->
                Clip(RMul(efficiency_bep,
                          Exp(RMul(Rat(-5, 10),
                                   RSq(RDiv(RSub(q_normalized[i], One), Rat(4, 10)))))),
                     Rat(1, 100), One)]
        density   == Rat(9982, 10)
        hydraulic == [i \in 1..num_points |->
                         RMul(RMul(RMul(density, GRAVITY), q_range[i]), h_range[i])]
        power_range == [i \in 1..num_points |-> RDiv(hydraulic[i], efficiency_range[i])]
    IN  [flow |-> q_range, head |-> h_range, power |-> power_range,
         efficiency |-> efficiency_range, q_bep |-> q_bep, h_bep |-> h_bep]

\* the last index holding the minimum
ArgMinLast(xs) ==
    CHOOSE i \in 1..Len(xs) :
        /\ \A j \in 1..Len(xs) : RLe(xs[i], xs[j])
        /\ \A j \in (i + 1)..Len(xs) : RLt(xs[i], xs[j])

\* np.argmax in place of np.argmin
ArgMax(xs) ==
    CHOOSE i \in 1..Len(xs) :
        /\ \A j \in 1..Len(xs) : RLe(xs[j], xs[i])
        /\ \A j \in 1..(i - 1) : RLt(xs[j], xs[i])

\* np.argmin: the first index holding the minimum
ArgMin(xs) ==
    CHOOSE i \in 1..Len(xs) :
        /\ \A j \in 1..Len(xs) : RLe(xs[i], xs[j])
        /\ \A j \in 1..(i - 1) : RLt(xs[i], xs[j])

\* a search that marks whether the curves cross between two samples
OperatingPointSearchFlagged(system_curve_params, pump_curve) ==
    LET h_static == system_curve_params.h_static
        k        == system_curve_params.k_coefficient
        q_range  == pump_curve.flow
        h_system == [i \in 1..Len(q_range) |-> RAdd(h_static, RMul(k, RSq(q_range[i])))]
        h_pump   == pump_curve.head
        diff     == [i \in 1..Len(q_range) |-> RAbs(RSub(h_pump[i], h_system[i]))]
        idx_op   == ArgMin(diff)
    IN  [flow_operating |-> q_range[idx_op],
         head_operating |-> h_pump[idx_op],
         power_operating |-> pump_curve.power[idx_op],
         efficiency_operating |-> pump_curve.efficiency[idx_op],
         system_curve |-> h_system,
         pump_curve |-> h_pump,
         flow_range |-> q_range,
         intersects |-> \E i \in 1..Len(q_range) : RLe(h_system[i], h_pump[i])]

\* operating_point after the curve is generated: the search over pump_curve
OperatingPointSearch(system_curve_params, pump_curve) ==
    LET h_static == system_curve_params.h_static
        k        == system_curve_params.k_coefficient
        q_range  == pump_curve.flow
        h_system == [i \in 1..Len(q_range) |-> RAdd(h_static, RMul(k, RSq(q_range[i])))]
        h_pump   == pump_curve.head
        diff     == [i \in 1..Len(q_range) |-> RAbs(RSub(h_pump[i], h_system[i]))]
        idx_op   == ArgMin(diff)
    IN  [flow_operating |-> q_range[idx_op],
         head_operating |-> h_pump[idx_op],
         power_operating |-> pump_curve.power[idx_op],
         efficiency_operating |-> pump_curve.efficiency[idx_op],
         system_curve |-> h_system,
         pump_curve |-> h_pump,
         flow_range |-> q_range]

---------------------------------------------------------------------------
(* Standards: standards.py, the selection and verification classifiers.    *)
(* Accented letters of the source's strings are written without accent.    *)

\* SAFETY_FACTORS['Presion estatica']['ASME_B31.3']
SAFETY_FACTOR_ASME_B31_3 == Rat(15, 10)

\* the dict in insertion order, which is the order .items() iterates in
PRESSURE_CLASSES_ANSI ==
    << [name |-> "150",  max_pressure_bar |-> Rat(196, 10), max_temp_c |-> Num(260)],
       [name |-> "300",  max_pressure_bar |-> Num(51),      max_temp_c |-> Num(370)],
       [name |-> "600",  max_pressure_bar |-> Num(102),     max_temp_c |-> Num(400)],
       [name |-> "900",  max_pressure_bar |-> Num(153),     max_temp_c |-> Num(427)],
       [name |-> "1500", max_pressure_bar |-> Num(255),     max_temp_c |-> Num(450)],
       [name |-> "2500", max_pressure_bar |-> Num(425),     max_temp_c |-> Num(482)] >>

PRESSURE_CLASSES_PN ==
    << [name |-> "PN6",   max_pressure_bar |-> Num(6)],
       [name |-> "PN10",  max_pressure_bar |-> Num(10)],
       [name |-> "PN16",  max_pressure_bar |-> Num(16)],
       [name |-> "PN25",  max_pressure_bar |-> Num(25)],
       [name |-> "PN40",  max_pressure_bar |-> Num(40)],
       [name |-> "PN63",  max_pressure_bar |-> Num(63)],
       [name |-> "PN100", max_pressure_bar |-> Num(100)] >>

\* the classes a standard names: every string other than 'ANSI' selects PN
PressureClasses(standard) ==
    IF standard = "ANSI" THEN PRESSURE_CLASSES_ANSI ELSE PRESSURE_CLASSES_PN

\* the loop filling suitable_classes, in table order
SuitableClasses(design_pressure, temperature, standard) ==
    LET Suits(specs) ==
            IF standard = "ANSI"
            THEN /\ RLe(design_pressure, specs.max_pressure_bar)
                 /\ RLe(temperature, specs.max_temp_c)
            ELSE RLe(design_pressure, specs.max_pressure_bar)
        kept == SelectSeq(PressureClasses(standard), Suits)
    IN  [i \in 1..Len(kept) |-> kept[i].name]

PressureClassError(design_pressure) ==
    [status |-> "ERROR",
     message |-> "No hay clase de presion adecuada para estas condiciones",
     design_pressure |-> design_pressure]

\* the last suitable class recommended in place of the first
select_pressure_class_last(operating_pressure, temperature, standard) ==
    LET design_pressure  == RMul(operating_pressure, SAFETY_FACTOR_ASME_B31_3)
        suitable_classes == SuitableClasses(design_pressure, temperature, standard)
    IN  IF suitable_classes = <<>> THEN PressureClassError(design_pressure)
        ELSE [status |-> "OK",
              operating_pressure |-> operating_pressure,
              design_pressure |-> design_pressure,
              recommended_class |-> suitable_classes[Len(suitable_classes)],
              all_suitable_classes |-> suitable_classes,
              standard |-> standard]

select_pressure_class(operating_pressure, temperature, standard) ==
    LET design_pressure  == RMul(operating_pressure, SAFETY_FACTOR_ASME_B31_3)
        suitable_classes == SuitableClasses(design_pressure, temperature, standard)
    IN  IF suitable_classes = <<>> THEN PressureClassError(design_pressure)
        ELSE [status |-> "OK",
              operating_pressure |-> operating_pressure,
              design_pressure |-> design_pressure,
              recommended_class |-> suitable_classes[1],
              all_suitable_classes |-> suitable_classes,
              standard |-> standard]

\* STANDARD_PIPE_SIZES, mm
STANDARD_PIPE_SIZES ==
    <<6, 8, 10, 15, 20, 25, 32, 40, 50, 65, 80, 100, 125, 150, 200,
      250, 300, 350, 400, 450, 500, 600, 700, 800, 900, 1000, 1200>>

\* np.pi is one fixed positive float; the model carries a short rational in
\* its place (select_pipe_size only multiplies and divides by it)
pi == Rat(22, 7)

\* the largest r in lo..hi with r * r <= n, by bisection
RECURSIVE ISqrtIn(_, _, _)
ISqrtIn(n, lo, hi) ==
    IF lo = hi THEN lo
    ELSE LET mid == (lo + hi + 1) \div 2
         IN  IF mid <= n \div mid THEN ISqrtIn(n, mid, hi) ELSE ISqrtIn(n, lo, mid - 1)

\* the root of a perfect square (no value for any other integer)
ISqrt(n) == CHOOSE r \in {ISqrtIn(n, 0, n)} : r * r = n

\* np.sqrt: nan for a negative argument; exact on the squares of rationals,
\* which are the arguments the requests below lead to
RSqrt(x) ==
    IF IsNaN(x) \/ x[1] < 0 THEN NaN ELSE <<ISqrt(x[1]), ISqrt(x[2])>>

DefaultMaxVelocity == Num(2)

\* diameter_required, mm
RequiredDiameter(flow_rate, max_velocity) ==
    LET area_required == RDiv(flow_rate, max_velocity)
    IN  RMul(RSqrt(RDiv(RMul(Num(4), area_required), pi)), Num(1000))

\* what select_pipe_size returns once the list of suitable sizes is known
PipeSizeVerdict(flow_rate, diameter_required, suitable_sizes) ==
    IF suitable_sizes = <<>>
    THEN [status |-> "ERROR", message |-> "Diametro requerido excede tamanos estandar"]
    ELSE LET recommended_dn == suitable_sizes[1]
             diameter_m     == RDiv(Num(recommended_dn), Num(1000))
             area           == RMul(pi, RSq(RDiv(diameter_m, Num(2))))
         IN  [status |-> "OK",
              required_diameter_mm |-> diameter_required,
              recommended_dn |-> recommended_dn,
              actual_velocity |-> RDiv(flow_rate, area),
              flow_rate_m3h |-> RMul(flow_rate, Num(3600)),
              next_sizes |-> IF Len(suitable_sizes) > 1
                             THEN SubSeq(suitable_sizes, 1,
                                         IF Len(suitable_sizes) < 3 THEN Len(suitable_sizes)
                                                                    ELSE 3)
                             ELSE suitable_sizes]

\* the sizes filtered with dn > diameter_required
select_pipe_size_strict(flow_rate, max_velocity) ==
    IF ~IsNaN(max_velocity) /\ max_velocity[1] = 0
    THEN Raise("ZeroDivisionError", <<>>, <<>>)
    ELSE LET diameter_required == RequiredDiameter(flow_rate, max_velocity)
             Larger(dn) == RLt(diameter_required, Num(dn))
         IN  Return(PipeSizeVerdict(flow_rate, diameter_required,
                                    SelectSeq(STANDARD_PIPE_SIZES, Larger)),
                    <<>>, <<>>)

\* flow_rate / max_velocity divides Python floats: a zero divisor raises
select_pipe_size(flow_rate, max_velocity) ==
    IF ~IsNaN(max_velocity) /\ max_velocity[1] = 0
    THEN Raise("ZeroDivisionError", <<>>, <<>>)
    ELSE LET diameter_required == RequiredDiameter(flow_rate, max_velocity)
             Suits(dn) == RLe(diameter_required, Num(dn))
         IN  Return(PipeSizeVerdict(flow_rate, diameter_required,
                                    SelectSeq(STANDARD_PIPE_SIZES, Suits)),
                    <<>>, <<>>)

\* VELOCITY_LIMITS, m/s
VELOCITY_LIMITS ==
    [service \in {"Succion de bomba", "Descarga de bomba", "Tuberia general",
                  "Drenaje por gravedad", "Agua potable", "Vapor saturado",
                  "Vapor sobrecalentado", "Gas"} |->
        CASE service = "Succion de bomba" ->
                 [min |-> Rat(6, 10), max |-> Rat(15, 10), recommended |-> Num(1)]
          [] service = "Descarga de bomba" ->
                 [min |-> Rat(15, 10), max |-> Num(3), recommended |-> Num(2)]
          [] service = "Tuberia general" ->
                 [min |-> Num(1), max |-> Num(3), recommended |-> Num(2)]
          [] service = "Drenaje por gravedad" ->
                 [min |-> Rat(5, 10), max |-> Num(2), recommended |-> Num(1)]
          [] service = "Agua potable" ->
                 [min |-> Rat(5, 10), max |-> Rat(25, 10), recommended |-> Rat(15, 10)]
          [] service = "Vapor saturado" ->
                 [min |-> Num(15), max |-> Num(30), recommended |-> Num(20)]
          [] service = "Vapor sobrecalentado" ->
                 [min |-> Num(20), max |-> Num(50), recommended |-> Num(30)]
          [] service = "Gas" ->
                 [min |-> Num(5), max |-> Num(30), recommended |-> Num(15)]]

\* VELOCITY_LIMITS.get(service_type, VELOCITY_LIMITS['Tuberia general'])
VelocityLimits(service_type) ==
    IF service_type \in DOMAIN VELOCITY_LIMITS THEN VELOCITY_LIMITS[service_type]
    ELSE VELOCITY_LIMITS["Tuberia general"]

\* the three if statements, in order, on (status, warnings_list)
VelocityLow(velocity, limits, st) ==
    IF RLt(velocity, limits.min)
    THEN [status |-> "ADVERTENCIA",
          warnings |-> st.warnings \o <<"Velocidad baja",
                                        "Riesgo de sedimentacion y estratificacion">>]
    ELSE st

VelocityHigh(velocity, limits, st) ==
    IF RLt(limits.max, velocity)
    THEN [status |-> "ADVERTENCIA",
          warnings |-> st.warnings \o <<"Velocidad alta",
                                        "Riesgo de erosion, ruido y vibracion">>]
    ELSE st

\* the band around the recommended velocity taken with >= 0.5
VelocityInRangeClosed(velocity, limits, st) ==
    IF RLe(limits.min, velocity) /\ RLe(velocity, limits.max)
    THEN [st EXCEPT !.status =
              IF RLe(Rat(5, 10), RAbs(RSub(velocity, limits.recommended)))
              THEN "ACEPTABLE" ELSE "OPTIMO"]
    ELSE st

VelocityInRange(velocity, limits, st) ==
    IF RLe(limits.min, velocity) /\ RLe(velocity, limits.max)
    THEN [st EXCEPT !.status =
              IF RLt(Rat(5, 10), RAbs(RSub(velocity, limits.recommended)))
              THEN "ACEPTABLE" ELSE "OPTIMO"]
    ELSE st

check_velocity(velocity, service_type) ==
    LET limits == VelocityLimits(service_type)
        st == VelocityInRange(velocity, limits,
                  VelocityHigh(velocity, limits,
                      VelocityLow(velocity, limits, [status |-> "OK", warnings |-> <<>>])))
    IN  [status |-> st.status,
         velocity |-> velocity,
         limits |-> limits,
         warnings |-> st.warnings,
         in_range |-> RLe(limits.min, velocity) /\ RLe(velocity, limits.max)]

\* the lower boundary taken with <= : Re = 2300 stays LAMINAR
check_reynolds_closed_at_2300(reynolds) ==
    IF RLe(reynolds, Num(2300))
    THEN [reynolds |-> reynolds, flow_type |-> "LAMINAR",
          description |-> "Flujo ordenado en capas paralelas",
          concerns |-> <<"Velocidad muy baja", "Posible sedimentacion">>]
    ELSE IF RLt(reynolds, Num(4000))
    THEN [reynolds |-> reynolds, flow_type |-> "TRANSICION",
          description |-> "Flujo inestable entre laminar y turbulento",
          concerns |-> <<"Comportamiento impredecible", "Evitar operar en esta zona">>]
    ELSE [reynolds |-> reynolds, flow_type |-> "TURBULENTO",
          description |-> "Flujo con mezcla completa, regimen normal",
          concerns |-> <<>>]

check_reynolds(reynolds) ==
    IF RLt(reynolds, Num(2300))
    THEN [reynolds |-> reynolds, flow_type |-> "LAMINAR",
          description |-> "Flujo ordenado en capas paralelas",
          concerns |-> <<"Velocidad muy baja", "Posible sedimentacion">>]
    ELSE IF RLt(reynolds, Num(4000))
    THEN [reynolds |-> reynolds, flow_type |-> "TRANSICION",
          description |-> "Flujo inestable entre laminar y turbulento",
          concerns |-> <<"Comportamiento impredecible", "Evitar operar en esta zona">>]
    ELSE [reynolds |-> reynolds, flow_type |-> "TURBULENTO",
          description |-> "Flujo con mezcla completa, regimen normal",
          concerns |-> <<>>]

---------------------------------------------------------------------------
(* The shared PumpCalculator instance (app.py: init_calculators is cached  *)
(* with st.cache_resource, so every session's thread calls the same        *)
(* object).  A call of generate_pump_curve runs in three steps, between    *)
(* which another thread may run: its arguments are bound; the dict is      *)
(* built and stored in self.curve_data; self.curve_data is read back and   *)
(* returned.  Dicts are heap objects, named by their index in heap.        *)

NumThreads == 2

MaxCalls == 3

Threads == 1..NumThreads

\* BEP arguments of generate_pump_curve; num_points is always passed
PumpParams ==
    { [q_bep |-> Rat(1, 100), h_bep |-> Num(30), power_bep |-> Num(3924),
       efficiency_bep |-> Rat(8, 10), num_points |-> 4],
      [q_bep |-> Rat(2, 100), h_bep |-> Num(20), power_bep |-> Num(5000),
       efficiency_bep |-> Rat(75, 100), num_points |-> 4],
      [q_bep |-> Rat(1, 100), h_bep |-> Num(30), power_bep |-> Num(9000),
       efficiency_bep |-> Rat(8, 10), num_points |-> 2],
      [q_bep |-> Rat(2, 100), h_bep |-> Num(20), power_bep |-> Num(5000),
       efficiency_bep |-> Rat(75, 100), num_points |-> 1] }

SystemParams ==
    { [h_static |-> Num(5), k_coefficient |-> Num(200000)],
      [h_static |-> Num(40), k_coefficient |-> Num(0)] }

\* the null reference: curve_data before any curve was generated
NoRef == 0

Idle == [pc |-> "idle", op |-> None, args |-> None, sys |-> None,
         pre |-> NoRef, ret |-> NoRef, result |-> None]

\* a caller enters generate_pump_curve(q_bep, h_bep, power_bep, efficiency_bep, num_points)
CallGeneratePumpCurve(t) ==
    /\ thread[t].pc = "idle"
    /\ Len(heap) + Cardinality({u \in Threads : thread[u].pc = "gen"}) < MaxCalls
    /\ \E p \in PumpParams :
          thread' = [thread EXCEPT ![t] =
                        [Idle EXCEPT !.pc = "gen", !.op = "generate_pump_curve",
                                     !.args = p, !.pre = curve_data]]
    /\ UNCHANGED <<heap, curve_data, efficiency_data, request, outcome, cb>>

\* a caller enters operating_point(system_curve_params, pump_curve_params),
\* whose first statement calls generate_pump_curve(**pump_curve_params)
CallOperatingPoint(t) ==
    /\ thread[t].pc = "idle"
    /\ Len(heap) + Cardinality({u \in Threads : thread[u].pc = "gen"}) < MaxCalls
    /\ \E p \in PumpParams, sp \in SystemParams :
          thread' = [thread EXCEPT ![t] =
                        [Idle EXCEPT !.pc = "gen", !.op = "operating_point",
                                     !.args = p, !.sys = sp, !.pre = curve_data]]
    /\ UNCHANGED <<heap, curve_data, efficiency_data, request, outcome, cb>>

\* the reference bound to self.curve_data once the new dict is allocated
StoredRef(h) == Len(h) + 1

\* a generate_pump_curve that refills the dict self.curve_data already
\* names instead of binding a new one
StoreCurveInPlace(t) ==
    /\ thread[t].pc = "gen"
    /\ LET p == thread[t].args
           c == PumpCurve(p.q_bep, p.h_bep, p.power_bep, p.efficiency_bep, p.num_points)
       IN  heap' = IF curve_data = NoRef THEN Append(heap, c) ELSE [heap EXCEPT ![curve_data] = c]
    /\ curve_data' = IF curve_data = NoRef THEN StoredRef(heap) ELSE curve_data
    /\ thread' = [thread EXCEPT ![t].pc = "stored"]
    /\ UNCHANGED <<efficiency_data, request, outcome, cb>>

\* generate_pump_curve: the arrays are computed and self.curve_data = {...}
StoreCurve(t) ==
    /\ thread[t].pc = "gen"
    /\ LET p == thread[t].args
       IN  heap' = Append(heap, PumpCurve(p.q_bep, p.h_bep, p.power_bep,
                                          p.efficiency_bep, p.num_points))
    /\ curve_data' = StoredRef(heap)
    /\ thread' = [thread EXCEPT ![t].pc = "stored"]
    /\ UNCHANGED <<efficiency_data, request, outcome, cb>>

\* the value of the expression in "return self.curve_data"
ReturnedRef(t) == curve_data

\* generate_pump_curve: return self.curve_data
ReturnCurve(t) ==
    /\ thread[t].pc = "stored"
    /\ thread' = [thread EXCEPT ![t] =
                     IF thread[t].op = "generate_pump_curve"
                     THEN [@ EXCEPT !.pc = "done", !.ret = ReturnedRef(t),
                                    !.result = ReturnedRef(t)]
                     ELSE [@ EXCEPT !.pc = "search", !.ret = ReturnedRef(t)]]
    /\ UNCHANGED <<heap, curve_data, efficiency_data, request, outcome, cb>>

\* operating_point: the search over the curve generate_pump_curve returned
SearchOperatingPoint(t) ==
    /\ thread[t].pc = "search"
    /\ thread' = [thread EXCEPT ![t] =
                     [@ EXCEPT !.pc = "done",
                               !.result = OperatingPointSearch(thread[t].sys,
                                                               heap[thread[t].ret])]]
    /\ UNCHANGED <<heap, curve_data, efficiency_data, request, outcome, cb>>

\* the caller has taken the result; the thread serves the next request
NextRequest(t) ==
    /\ thread[t].pc = "done"
    /\ thread' = [thread EXCEPT ![t] = Idle]
    /\ UNCHANGED <<heap, curve_data, efficiency_data, request, outcome, cb>>

\* PumpCalculator.__init__
InitEngine ==
    /\ efficiency_data = None
    /\ curve_data = NoRef
    /\ heap = <<>>
    /\ thread = [t \in Threads |-> Idle]

NoRequest == [op |-> None]

NoOutcome == [kind |-> None]

NoLoop == [pc |-> "off"]

Init ==
    /\ InitEngine
    /\ request = NoRequest
    /\ outcome = NoOutcome
    /\ cb = NoLoop

Next ==
    \E t \in Threads :
        \/ CallGeneratePumpCurve(t)
        \/ CallOperatingPoint(t)
        \/ StoreCurve(t)
        \/ ReturnCurve(t)
        \/ SearchOperatingPoint(t)
        \/ NextRequest(t)

Spec == Init /\ [][Next]_vars

---------------------------------------------------------------------------
(* The solver: one call of a stateless function per behaviour.  Init draws *)
(* the call (function and arguments) from bounded sets; the function's     *)
(* action runs it and records what it returned or raised.                  *)

Temperatures ==
    {Num(temps[i]) : i \in 1..Len(temps)}
        \cup {Num(-5), Rat(-1, 2), Rat(5, 2), Num(18), Num(35), Num(95), Rat(201, 2), Num(105)}

KLists == {<<>>, <<Rat(1, 2), Rat(9, 10)>>, <<Rat(9, 10), Rat(1, 2)>>}

Elevations == {Zero, Num(5), Num(-3)}

ViscosityRequests ==
    {[op |-> "get_kinematic_viscosity", args |-> [temperature |-> t]] : t \in Temperatures}

DensityRequests ==
    {[op |-> "get_water_density", args |-> [temperature |-> t]] : t \in Temperatures}

ReynoldsRequests ==
    {[op |-> "reynolds_number", args |-> [velocity |-> v, diameter |-> d, viscosity |-> nu]] :
        v \in {Num(2), Rat(1, 2), Zero, Num(-1)},
        d \in {Rat(1, 10), Zero, Rat(-1, 10)},
        nu \in {Rat(1, 10^6), Rat(1004, 10^9), Zero, Rat(-1, 10^6)}}

ColebrookCall(re, tol, mi) ==
    [op |-> "friction_factor_colebrook",
     args |-> [reynolds |-> Num(re), roughness |-> Rat(5, 10^5), diameter |-> Rat(1, 10),
               tolerance |-> tol, max_iter |-> mi]]

\* the documented call (100000, 0.00005, 0.1) with the default tolerance and
\* max_iter, and the same just below the Reynolds limit; at the limit, calls
\* with smaller budgets and a wider tolerance
ColebrookRequests ==
    {ColebrookCall(re, DefaultTolerance, DefaultMaxIter) : re \in {3999, 100000}}
        \cup {ColebrookCall(4000, tol, mi) :
                 tol \in {DefaultTolerance, Rat(1, 100)}, mi \in {0, 1, 3}}

\* <<flow_rate (in pi/4 m3/s), diameter, temperature>> of valid calls.  At
\* 60 C the viscosity is 0.475e-6 m2/s, so in a 19 mm pipe the Reynolds
\* number is 40000 times the velocity: exactly 2300 and exactly 4000 for
\* the first two, then values on both sides of each boundary
BoundaryFlows ==
    {<<Rat(8303, 4 * 10^8), Rat(19, 1000), Num(60)>>,
     <<Rat(361, 10^7), Rat(19, 1000), Num(60)>>}

RegimeFlows ==
    {<<Rat(1, 20000), Rat(1, 20), Num(60)>>,
     <<Rat(27, 1600000), Rat(3, 200), Num(60)>>,
     <<Rat(3, 64000), Rat(1, 40), Num(60)>>,
     <<Rat(1, 5000), Rat(1, 10), Num(60)>>,
     <<Rat(1, 100000), Rat(1, 100), Num(20)>>,
     <<Rat(1, 2000), Rat(1, 10), Num(20)>>,
     <<Rat(1, 200000), Rat(1, 100), Num(-5)>>,
     <<Rat(1, 8000), Rat(1, 10), Num(-5)>>,
     <<Rat(1, 200000), Rat(1, 100), Num(105)>>,
     <<Rat(1, 8000), Rat(1, 10), Num(105)>>}

\* calls that break the caller's contract: a flow rate or a diameter <= 0
InvalidFlows ==
    {<<q, d, t>> : q \in {Rat(1, 100), Zero, Rat(-1, 100)},
                   d \in {Rat(1, 10), Zero, Rat(-1, 10)},
                   t \in {Num(60), Num(-5)}}
        \ {<<Rat(1, 100), Rat(1, 10), Num(60)>>, <<Rat(1, 100), Rat(1, 10), Num(-5)>>}

SystemCall(c, ks, e) ==
    [op |-> "calculate_system",
     args |-> [flow_rate |-> c[1], diameter |-> c[2], length |-> Num(100),
               roughness |-> Rat(5, 10^5), minor_losses_k |-> ks,
               temperature |-> c[3], elevation_change |-> e]]

\* the last call has a flow rate that is not a number: float('nan') passes
\* every validation, since each of them is a comparison
SystemRequests ==
    {SystemCall(c, <<>>, e) : c \in BoundaryFlows, e \in {Zero, Num(5)}}
        \cup {SystemCall(c, ks, e) : c \in RegimeFlows, ks \in KLists, e \in Elevations}
        \cup {SystemCall(c, <<Rat(1, 2)>>, Zero) : c \in InvalidFlows}
        \cup {SystemCall(<<NaN, Rat(1, 10), Num(60)>>, <<>>, Zero)}

ShaftPowerRequests ==
    {[op |-> "shaft_power", args |-> [hydraulic_power |-> hp, efficiency |-> eff]] :
        hp \in {Num(3000), Zero, Num(-50), Rat(29430, 10)},
        eff \in {Rat(75, 100), Rat(1, 2), One, Zero, Rat(-1, 10), Rat(101, 100), Num(2)}}

SuctionConditions ==
    {[pressure_suction |-> Num(101300), vapor_pressure |-> Num(2300),
      velocity_suction |-> One, elevation |-> Num(2)],
     [pressure_suction |-> Num(101300), vapor_pressure |-> Num(2300),
      velocity_suction |-> One, elevation |-> Num(-9)]}

PumpSpecs ==
    {[efficiency |-> eff, speed |-> Num(1750)] :
        eff \in {Rat(75, 100), One, Zero, Rat(-1, 10), Rat(101, 100), Rat(12, 10)}}
        \cup {[speed |-> Num(1450)]}

PumpAnalysisRequests ==
    {[op |-> "complete_pump_analysis",
      args |-> [flow_rate |-> Rat(1, 100), total_head |-> Num(30),
                suction_conditions |-> sc, pump_specs |-> ps, density |-> Num(1000)]] :
        sc \in SuctionConditions, ps \in PumpSpecs}

\* margins npsh_available - 3 on both sides of 0, 0.5, 1 and 1.5, with the
\* default safety margin and three others
CavitationRequests ==
    {[op |-> "cavitation_check",
      args |-> [npsh_available |-> RAdd(Num(3), m), npsh_required |-> Num(3),
                safety_margin |-> sm]] :
        m \in {Num(-2), Rat(-1, 2), Zero, Rat(49, 100), Rat(1, 2), Rat(51, 100), Rat(7, 10),
               Rat(99, 100), One, Rat(101, 100), Rat(3, 2), Num(2), Num(5)},
        sm \in {DefaultSafetyMargin, Zero, Rat(3, 2), Num(-1)}}

ClassifyRequests ==
    {[op |-> "classify_pump_type", args |-> [specific_speed |-> ns]] :
        ns \in {Num(-5), Zero, Num(19), Rat(199, 10), Num(20), Num(30), Rat(399, 10), Num(40),
                Num(79), Num(80), Rat(1499, 10), Num(150), Rat(2999, 10), Num(300),
                Rat(3001, 10), Num(1000)}}

\* operating pressures (bar) whose design pressure sits on, just below and
\* just above a rating of either table, and some far from every rating
PressureClassRequests ==
    {[op |-> "select_pressure_class",
      args |-> [operating_pressure |-> p, temperature |-> t, standard |-> st]] :
        p \in {NaN, Num(-1), Zero, Num(4), Rat(401, 100), Num(10), Num(13), Rat(196, 15),
               Rat(131, 10), Num(34), Rat(341, 10), Num(42), Rat(200, 3), Num(67),
               Num(170), Rat(850, 3), Num(284)},
        t \in {NaN, Num(50), Num(260), Num(261), Num(400), Num(450), Num(482), Num(483)},
        st \in {"ANSI", "PN", "DIN"}}

\* the flow rate (m3/s) that needs exactly a diameter of d mm at velocity v
FlowNeeding(d, v) == RMul(RMul(pi, RSq(Rat(d, 2000))), v)

\* required diameters on, below and above standard sizes, below the
\* smallest and above the largest; then the arguments that are not positive
PipeSizeRequests ==
    {[op |-> "select_pipe_size",
      args |-> [flow_rate |-> FlowNeeding(d, v), max_velocity |-> v]] :
        d \in {0, 5, 6, 7, 99, 100, 101, 125, 1199, 1200, 1201, 5000},
        v \in {DefaultMaxVelocity, Rat(5, 2), Rat(1, 2)}}
    \cup
    {[op |-> "select_pipe_size", args |-> [flow_rate |-> q, max_velocity |-> v]] :
        q \in {NaN, Zero, FlowNeeding(100, Num(2)), RNeg(FlowNeeding(100, Num(2)))},
        v \in {NaN, Zero, Num(-2)}}
    \cup
    {[op |-> "select_pipe_size",
      args |-> [flow_rate |-> RNeg(FlowNeeding(100, Num(2))), max_velocity |-> Num(2)]]}

\* velocities on and next to every limit of the tables, on and next to the
\* half-unit band around every recommended velocity, and far outside
VelocityRequests ==
    {[op |-> "check_velocity", args |-> [velocity |-> v, service_type |-> st]] :
        v \in {NaN, Num(-1), Zero, Rat(49, 100), Rat(1, 2), Rat(59, 100), Rat(6, 10),
               Rat(99, 100), One, Rat(149, 100), Rat(3, 2), Rat(151, 100), Num(2),
               Rat(249, 100), Rat(5, 2), Rat(251, 100), Num(3), Rat(301, 100),
               Rat(1499, 100), Num(15), Rat(1949, 100), Rat(39, 2), Num(20),
               Rat(41, 2), Rat(2051, 100), Num(30), Rat(3001, 100), Num(100)},
        st \in {"Tuberia general", "Succion de bomba", "Descarga de bomba",
                "Agua potable", "Vapor saturado", "Servicio desconocido"}}

\* BEP arguments of generate_pump_curve for one caller alone on a fresh
\* instance: efficiencies inside, on and outside (0, 1], and no number
CurveParams ==
    {[q_bep |-> Rat(1, 100), h_bep |-> Num(30), power_bep |-> Num(3924),
      efficiency_bep |-> e, num_points |-> n] :
        e \in {Rat(8, 10), Rat(1, 10), Rat(1, 100), Zero, Rat(-1, 2), One, Rat(3, 2), NaN},
        n \in {1, 2, 4}}

\* one caller's successive calls of generate_pump_curve on one instance:
\* a single call, or a call followed by one that differs in power_bep only
CurveRequests ==
    {[op |-> "generate_pump_curve", args |-> <<p>>] : p \in CurveParams}
    \cup
    {[op |-> "generate_pump_curve", args |-> <<p, [p EXCEPT !.power_bep = Num(9000)]>>] :
        p \in {c \in CurveParams : c.efficiency_bep \in {Rat(8, 10), Rat(1, 10)}}}

\* Reynolds numbers on and next to both thresholds, far from them, and the
\* values no pipe flow has
CheckReynoldsRequests ==
    {[op |-> "check_reynolds", args |-> [reynolds |-> re]] :
        re \in {NaN, Num(-1), Zero, One, Num(2299), Rat(22999, 10), Num(2300),
                Rat(23001, 10), Num(3000), Num(3999), Rat(39999, 10), Num(4000),
                Rat(40001, 10), Num(100000)}}

\* speeds (rpm) lowered, kept, raised; a zero and a negative speed
AffinitySpeeds ==
    {<<Num(n1), Num(n2)>> : n1 \in {1750, 1450, 3500, 0, -1750}, n2 \in {1750, 1450, 3500, 0}}

AffinityCall(op, x, n) ==
    [op |-> op, args |-> [value1 |-> x, speed1 |-> n[1], speed2 |-> n[2]]]

AffinityRequests ==
    {AffinityCall("affinity_laws_flow", x, n) :
        x \in {Rat(1, 100), Zero, Rat(-1, 100)}, n \in AffinitySpeeds}
    \cup
    {AffinityCall("affinity_laws_head", x, n) :
        x \in {Num(30), Zero, Num(-30)}, n \in AffinitySpeeds}
    \cup
    {AffinityCall("affinity_laws_power", x, n) :
        x \in {Num(3924), Zero, Num(-3924)}, n \in AffinitySpeeds}

\* pressures (Pa) and densities (kg/m3) of the conversion calls
Pressures == {Num(100000), Num(101325), Rat(1, 2), Zero, Num(-5000)}

Densities == {Num(1000), Rat(9982, 10), Rat(9832, 10), Rat(6, 5), Zero, Num(-1000)}

\* flow rates (in pi/4 m3/s) and diameters (m) of the conversion calls
ConversionFlows == {Rat(1, 100), Rat(1, 20000), Rat(361, 10^7), Zero, Rat(-1, 100)}

ConversionDiameters == {Rat(1, 10), Rat(19, 1000), Rat(3, 10), Zero, Rat(-1, 10)}

\* each conversion and its inverse: the heads converted back are the heads
\* pressure_to_head returns, the velocities those velocity_from_flow returns
ConversionRequests ==
    {[op |-> "pressure_to_head", args |-> [pressure |-> p, density |-> rho]] :
        p \in Pressures, rho \in Densities}
    \cup {[op |-> "head_to_pressure",
           args |-> [head |-> pressure_to_head(p, rho).value, density |-> rho]] :
             p \in Pressures, rho \in Densities \ {Zero}}
    \cup {[op |-> "velocity_from_flow", args |-> [flow_rate |-> q, diameter |-> d]] :
             q \in ConversionFlows, d \in ConversionDiameters}
    \cup {[op |-> "flow_from_velocity",
           args |-> [velocity |-> velocity_from_flow(q, d).value, diameter |-> d]] :
             q \in ConversionFlows, d \in ConversionDiameters \ {Zero}}

\* operating_point calls of one caller alone on a fresh instance.  The
\* pump's heads are 34.5, 33.375, 30, 24.375 m with four samples (34.5 and
\* 24.375 with two): the static heads put the system curve across the pump
\* curve, midway between two samples (33.9375, 27.1875, 29.4375), on the
\* shutoff head and above it
OperatingPointRequests ==
    {[op |-> "operating_point",
      args |-> [system_curve_params |-> [h_static |-> hs, k_coefficient |-> k],
                pump_curve_params |->
                    [q_bep |-> Rat(1, 100), h_bep |-> Num(30), power_bep |-> Num(3924),
                     efficiency_bep |-> Rat(8, 10), num_points |-> n]]] :
        hs \in {Num(5), Rat(543, 16), Rat(435, 16), Rat(471, 16), Rat(69, 2), Num(35), Num(40)},
        k \in {Zero, Num(200000), Num(-20000)},
        n \in {1, 2, 4}}

Requests ==
    ViscosityRequests \cup DensityRequests \cup ReynoldsRequests \cup ColebrookRequests
        \cup SystemRequests \cup ShaftPowerRequests \cup PumpAnalysisRequests
        \cup CavitationRequests \cup ClassifyRequests \cup PressureClassRequests
        \cup PipeSizeRequests \cup VelocityRequests \cup CurveRequests
        \cup CheckReynoldsRequests \cup AffinityRequests \cup ConversionRequests
        \cup OperatingPointRequests

Pending(op) == request.op = op /\ outcome.kind = None

EngineUnchanged == UNCHANGED <<request, cb, heap, curve_data, efficiency_data, thread>>

GetKinematicViscosity ==
    /\ Pending("get_kinematic_viscosity")
    /\ outcome' = get_kinematic_viscosity(request.args.temperature)
    /\ EngineUnchanged

GetWaterDensity ==
    /\ Pending("get_water_density")
    /\ outcome' = get_water_density(request.args.temperature)
    /\ EngineUnchanged

ReynoldsNumber ==
    /\ Pending("reynolds_number")
    /\ outcome' = reynolds_number(request.args.velocity, request.args.diameter,
                                  request.args.viscosity)
    /\ EngineUnchanged

FrictionFactorColebrook ==
    /\ Pending("friction_factor_colebrook")
    /\ \E oracle \in Oracles :
          outcome' = [friction_factor_colebrook(
                          request.args.reynolds, request.args.roughness,
                          request.args.diameter, request.args.tolerance,
                          request.args.max_iter, oracle)
                      EXCEPT !.trace = <<oracle>>]
    /\ EngineUnchanged

\* the oracles a calculate_system call can consult: none below Re = 2300;
\* every value computed from a NaN Reynolds number is NaN
SystemOracles(a) ==
    LET vel == velocity_from_flow(a.flow_rate, a.diameter)
        re  == reynolds_number(vel.value, a.diameter,
                               get_kinematic_viscosity(a.temperature).value)
    IN  IF vel.kind = "raise" THEN {NoOracle}
        ELSE IF re.kind = "raise" THEN {NoOracle}
        ELSE IF IsNaN(re.value) THEN {NoOracle}
        ELSE IF RLt(re.value, Num(2300)) THEN {NoOracle}
        ELSE IF RLt(re.value, Num(4000)) THEN {[NoOracle EXCEPT !.sj = f] : f \in FGrid}
        ELSE Oracles

CalculateSystem ==
    /\ Pending("calculate_system")
    /\ \E oracle \in SystemOracles(request.args) :
          LET a == request.args
              r == calculate_system(a.flow_rate, a.diameter, a.length, a.roughness,
                                    a.minor_losses_k, a.temperature,
                                    a.elevation_change, oracle)
          IN  outcome' = [r EXCEPT !.trace = Append(r.trace, oracle)]
    /\ EngineUnchanged

ShaftPower ==
    /\ Pending("shaft_power")
    /\ outcome' = shaft_power(request.args.hydraulic_power, request.args.efficiency)
    /\ EngineUnchanged

CompletePumpAnalysis ==
    /\ Pending("complete_pump_analysis")
    /\ \E oracle \in PumpOracles :
          LET a == request.args
          IN  outcome' = complete_pump_analysis(a.flow_rate, a.total_head,
                                                a.suction_conditions, a.pump_specs,
                                                a.density, oracle)
    /\ EngineUnchanged

CavitationCheck ==
    /\ Pending("cavitation_check")
    /\ outcome' = Return(cavitation_check(request.args.npsh_available,
                                          request.args.npsh_required,
                                          request.args.safety_margin), <<>>, <<>>)
    /\ EngineUnchanged

ClassifyPumpType ==
    /\ Pending("classify_pump_type")
    /\ outcome' = Return(classify_pump_type(request.args.specific_speed), <<>>, <<>>)
    /\ EngineUnchanged

SelectPressureClass ==
    /\ Pending("select_pressure_class")
    /\ outcome' = Return(select_pressure_class(request.args.operating_pressure,
                                               request.args.temperature,
                                               request.args.standard), <<>>, <<>>)
    /\ EngineUnchanged

SelectPipeSize ==
    /\ Pending("select_pipe_size")
    /\ outcome' = select_pipe_size(request.args.flow_rate, request.args.max_velocity)
    /\ EngineUnchanged

CheckVelocity ==
    /\ Pending("check_velocity")
    /\ outcome' = Return(check_velocity(request.args.velocity, request.args.service_type),
                         <<>>, <<>>)
    /\ EngineUnchanged

\* generate_pump_curve run from entry to return with no other caller in
\* between: the dict is built, stored in self.curve_data and returned; the
\* outcome lists the references the caller's calls have returned so far
GeneratePumpCurve ==
    /\ request.op = "generate_pump_curve"
    /\ Len(heap) < Len(request.args)
    /\ LET p == request.args[Len(heap) + 1]
       IN  heap' = Append(heap, PumpCurve(p.q_bep, p.h_bep, p.power_bep,
                                          p.efficiency_bep, p.num_points))
    /\ curve_data' = StoredRef(heap)
    /\ outcome' = Return(IF outcome.kind = None THEN <<curve_data'>>
                         ELSE Append(outcome.value, curve_data'), <<>>, <<>>)
    /\ UNCHANGED <<request, cb, efficiency_data, thread>>

CheckReynolds ==
    /\ Pending("check_reynolds")
    /\ outcome' = Return(check_reynolds(request.args.reynolds), <<>>, <<>>)
    /\ EngineUnchanged

AffinityLawsFlow ==
    /\ Pending("affinity_laws_flow")
    /\ outcome' = affinity_laws_flow(request.args.value1, request.args.speed1,
                                     request.args.speed2)
    /\ EngineUnchanged

AffinityLawsHead ==
    /\ Pending("affinity_laws_head")
    /\ outcome' = affinity_laws_head(request.args.value1, request.args.speed1,
                                     request.args.speed2)
    /\ EngineUnchanged

AffinityLawsPower ==
    /\ Pending("affinity_laws_power")
    /\ outcome' = affinity_laws_power(request.args.value1, request.args.speed1,
                                      request.args.speed2)
    /\ EngineUnchanged

PressureToHead ==
    /\ Pending("pressure_to_head")
    /\ outcome' = pressure_to_head(request.args.pressure, request.args.density)
    /\ EngineUnchanged

HeadToPressure ==
    /\ Pending("head_to_pressure")
    /\ outcome' = Return(head_to_pressure(request.args.head, request.args.density),
                         <<>>, <<>>)
    /\ EngineUnchanged

VelocityFromFlow ==
    /\ Pending("velocity_from_flow")
    /\ outcome' = velocity_from_flow(request.args.flow_rate, request.args.diameter)
    /\ EngineUnchanged

FlowFromVelocity ==
    /\ Pending("flow_from_velocity")
    /\ outcome' = Return(flow_from_velocity(request.args.velocity, request.args.diameter),
                         <<>>, <<>>)
    /\ EngineUnchanged

\* operating_point run from entry to return with no other caller in
\* between: generate_pump_curve builds, stores and returns the dict, then
\* the search runs over it
OperatingPoint ==
    /\ Pending("operating_point")
    /\ LET p == request.args.pump_curve_params
       IN  heap' = Append(heap, PumpCurve(p.q_bep, p.h_bep, p.power_bep,
                                          p.efficiency_bep, p.num_points))
    /\ curve_data' = StoredRef(heap)
    /\ outcome' = Return(OperatingPointSearch(request.args.system_curve_params,
                                              heap'[curve_data']), <<>>, <<>>)
    /\ UNCHANGED <<request, cb, efficiency_data, thread>>

InitSolver ==
    /\ InitEngine
    /\ request \in Requests
    /\ outcome = NoOutcome
    /\ cb = NoLoop

NextSolver ==
    \/ GetKinematicViscosity
    \/ GetWaterDensity
    \/ ReynoldsNumber
    \/ FrictionFactorColebrook
    \/ CalculateSystem
    \/ ShaftPower
    \/ CompletePumpAnalysis
    \/ CavitationCheck
    \/ ClassifyPumpType
    \/ SelectPressureClass
    \/ SelectPipeSize
    \/ CheckVelocity
    \/ GeneratePumpCurve
    \/ CheckReynolds
    \/ AffinityLawsFlow
    \/ AffinityLawsHead
    \/ AffinityLawsPower
    \/ PressureToHead
    \/ HeadToPressure
    \/ VelocityFromFlow
    \/ FlowFromVelocity
    \/ OperatingPoint

SolverSpec == InitSolver /\ [][NextSolver]_vars

---------------------------------------------------------------------------
(* The Colebrook loop, one pass of its body per step.  cb holds the call's *)
(* locals, as ColebrookEntry builds them.                                  *)

\* a pass of the body is run
ColebrookStep ==
    /\ cb.pc = "loop"
    /\ ColebrookContinues(cb.iteration, cb.max_iter)
    /\ cb' = ColebrookBody(cb)
    /\ UNCHANGED <<request, outcome, heap, curve_data, efficiency_data, thread>>

\* range(max_iter) is used up: the raise after the loop
ColebrookGiveUp ==
    /\ cb.pc = "loop"
    /\ ~ColebrookContinues(cb.iteration, cb.max_iter)
    /\ cb' = ColebrookEnd(cb)
    /\ UNCHANGED <<request, outcome, heap, curve_data, efficiency_data, thread>>

InitColebrook ==
    /\ InitEngine
    /\ request \in {r \in ColebrookRequests : ~RLt(r.args.reynolds, Num(4000))}
    /\ outcome = NoOutcome
    /\ \E oracle \in Oracles :
          cb = ColebrookEntry(request.args.tolerance, request.args.max_iter, oracle)

NextColebrook ==
    \/ ColebrookStep
    \/ ColebrookGiveUp

ColebrookSpec == InitColebrook /\ [][NextColebrook]_vars

\* the interpreter keeps running a call that can take a step
FairColebrookSpec == ColebrookSpec /\ WF_vars(NextColebrook)

---------------------------------------------------------------------------
(* Properties.                                                             *)

Done(op) == request.op = op /\ outcome.kind # None

\* x <= 0 and x < y on rationals, by their numerators
NonPositive(x) == x[1] <= 0

Below(x, n) == x[1] < n * x[2]

\* C1: under every interleaving of calls of generate_pump_curve (direct or
\* through operating_point) on the shared instance, the curve a call returns
\* is the curve computed from that call's own arguments
C1_EachCallReturnsItsOwnCurve ==
    \A t \in Threads :
        thread[t].ret # NoRef =>
            LET p == thread[t].args
            IN  heap[thread[t].ret] =
                    PumpCurve(p.q_bep, p.h_bep, p.power_bep, p.efficiency_bep, p.num_points)

\* C2: when a call of generate_pump_curve or operating_point has returned,
\* the instance's attributes curve_data and efficiency_data hold the values
\* they held when the call was entered
C2_NoResultRetained ==
    \A t \in Threads :
        thread[t].pc = "done" =>
            /\ curve_data = thread[t].pre
            /\ efficiency_data = None

\* C3: in a record calculate_system returns, Re < 2300 goes with Laminar and
\* f = 64/Re, 2300 <= Re < 4000 with Transitional and the Swamee-Jain value,
\* Re >= 4000 with Turbulent and the Colebrook solve
C3_RegimeBoundaries ==
    (Done("calculate_system") /\ outcome.kind = "return") =>
        LET re     == outcome.value.reynolds
            method == outcome.trace[5]
            oracle == outcome.trace[6]
        IN  IF Below(re, 2300)
            THEN /\ outcome.value.flow_regime = "Laminar"
                 /\ method = "64/Re"
                 /\ RMul(outcome.value.friction_factor, re) = Num(64)
            ELSE IF Below(re, 4000)
            THEN /\ outcome.value.flow_regime = "Transitional"
                 /\ method = "friction_factor_swamee_jain"
                 /\ outcome.value.friction_factor = oracle.sj
            ELSE /\ outcome.value.flow_regime = "Turbulent"
                 /\ method = "friction_factor_colebrook"

C3_Witness ==
    /\ Done("calculate_system")
    /\ outcome.kind = "return"
    /\ outcome.value.reynolds = Num(2300)
    /\ outcome.value.flow_regime = "Transitional"

\* the iterates f_0 (the initial guess), f_1, ..., f_n of the fixed-point map
RECURSIVE Iterates(_, _)
Iterates(oracle, n) ==
    IF n = 0 THEN <<oracle.sj>>
    ELSE LET xs == Iterates(oracle, n - 1)
         IN  Append(xs, oracle.g[xs[n]])

\* the iterates take values in FGrid, so they cycle: every pair of successive
\* iterates of the first n passes occurs in the first Cardinality(FGrid)
Passes(n) == IF n > Cardinality(FGrid) THEN Cardinality(FGrid) ELSE n

\* the passes i <= n whose iterate is within the tolerance of the one before
ConvergedPasses(oracle, n, tolerance) ==
    LET xs == Iterates(oracle, n)
    IN  {i \in 1..n : RLt(RAbs(RSub(xs[i + 1], xs[i])), tolerance)}

\* C4: a value friction_factor_colebrook returns is an iterate within the
\* tolerance of the iterate before it; when no iterate of the budget is, the
\* call raises RuntimeError, and calculate_system raises it too, with no
\* record and without calling the Swamee-Jain approximation
C4_NoStaleValue ==
    /\ (Done("friction_factor_colebrook") /\ ~Below(request.args.reynolds, 4000)) =>
          LET oracle == outcome.trace[1]
              n      == Passes(request.args.max_iter)
              xs     == Iterates(oracle, n)
              conv   == ConvergedPasses(oracle, n, request.args.tolerance)
          IN  IF conv = {}
              THEN outcome.kind = "raise" /\ outcome.exc = "RuntimeError"
              ELSE outcome.kind = "return"
                      /\ \E i \in conv : outcome.value = xs[i + 1]
    /\ (Done("calculate_system") /\ Len(outcome.trace) = 6
            /\ outcome.trace[5] = "friction_factor_colebrook") =>
          LET oracle == outcome.trace[6]
              n      == Passes(DefaultMaxIter)
              xs     == Iterates(oracle, n)
              conv   == ConvergedPasses(oracle, n, DefaultTolerance)
          IN  IF conv = {}
              THEN outcome.kind = "raise" /\ outcome.exc = "RuntimeError"
              ELSE outcome.kind = "return"
                      /\ \E i \in conv : outcome.value.friction_factor = xs[i + 1]

C4_Witness ==
    /\ Done("calculate_system")
    /\ outcome.kind = "raise"
    /\ outcome.exc = "RuntimeError"

\* C5: the loop of friction_factor_colebrook never begins more than max_iter
\* passes, and every call ends, by returning or by raising
C5_LoopTerminates ==
    /\ [](cb.iteration <= cb.max_iter)
    /\ <>(cb.pc \in {"returned", "raised"})

C5_Witness ==
    /\ cb.pc = "raised"
    /\ cb.max_iter = DefaultMaxIter
    /\ cb.iteration = DefaultMaxIter

\* the reference lookup: the temperature clamped to the table's range, then
\* the value at an anchor or the weighted mean of the two adjacent anchors
ClampInterpolate(table, temperature) ==
    LET lo == Num(temps[1])
        hi == Num(temps[Len(temps)])
        tc == IF Below(temperature, temps[1]) THEN lo
              ELSE IF temperature[1] > temps[Len(temps)] * temperature[2] THEN hi
              ELSE temperature
        i  == CHOOSE j \in 1..(Len(temps) - 1) :
                  ~Below(tc, temps[j]) /\ ~(tc[1] > temps[j + 1] * tc[2])
        t1 == Num(temps[i])
        t2 == Num(temps[i + 1])
    IN  RDiv(RAdd(RMul(RSub(t2, tc), table[temps[i]]),
                  RMul(RSub(tc, t1), table[temps[i + 1]])),
             RSub(t2, t1))

\* C6: each property lookup returns the clamp-and-interpolate value of its
\* table: the anchor's value, the linear interpolation between two anchors,
\* the value at 0 C below the range and the value at 100 C above it
C6_ClampAndInterpolate ==
    /\ Done("get_kinematic_viscosity") =>
          /\ outcome.kind = "return"
          /\ outcome.value = ClampInterpolate(viscosity_table, request.args.temperature)
    /\ Done("get_water_density") =>
          /\ outcome.kind = "return"
          /\ outcome.value = ClampInterpolate(density_table, request.args.temperature)

OutOfRange(temperature) ==
    Below(temperature, temps[1]) \/ temperature[1] > temps[Len(temps)] * temperature[2]

\* C7: each property lookup returns a value without raising, with an
\* advisory exactly when the temperature is below 0 C or above 100 C
C7_OutOfRangeAdvised ==
    (Done("get_kinematic_viscosity") \/ Done("get_water_density")) =>
        /\ outcome.kind = "return"
        /\ (outcome.warnings # <<>>) <=> OutOfRange(request.args.temperature)

\* C8: reynolds_number raises ValueError when an argument is <= 0, and
\* otherwise returns velocity * diameter / viscosity (200000 for 2, 0.1, 1e-6)
C8_ReynoldsNumber ==
    Done("reynolds_number") =>
        LET a == request.args
        IN  IF NonPositive(a.velocity) \/ NonPositive(a.diameter) \/ NonPositive(a.viscosity)
            THEN outcome.kind = "raise" /\ outcome.exc = "ValueError"
            ELSE /\ outcome.kind = "return"
                 /\ RMul(outcome.value, a.viscosity) = RMul(a.velocity, a.diameter)
                 /\ (a.velocity = Num(2) /\ a.diameter = Rat(1, 10)
                        /\ a.viscosity = Rat(1, 10^6)) => outcome.value = Num(200000)

C8_Witness ==
    /\ Done("reynolds_number")
    /\ request.args.velocity = Num(2)
    /\ request.args.diameter = Rat(1, 10)
    /\ request.args.viscosity = Rat(1, 10^6)
    /\ outcome.kind = "return"
    /\ outcome.value = Num(200000)

\* C9: calculate_system called with flow_rate <= 0 or diameter <= 0 raises
\* ValueError and returns no record
C9_InvalidInputRejected ==
    (Done("calculate_system")
        /\ (NonPositive(request.args.flow_rate) \/ NonPositive(request.args.diameter))) =>
        /\ outcome.kind = "raise"
        /\ outcome.exc = "ValueError"

\* the efficiency complete_pump_analysis passes to shaft_power
AnalysisEfficiency(pump_specs) ==
    IF "efficiency" \in DOMAIN pump_specs THEN pump_specs.efficiency ELSE Rat(3, 4)

\* C10: shaft_power raises ValueError exactly when efficiency <= 0 or
\* efficiency > 1 and otherwise returns hydraulic_power / efficiency (4000
\* for 3000 and 0.75); complete_pump_analysis with an efficiency outside
\* (0, 1] raises ValueError and returns no record
C10_ShaftPowerEfficiency ==
    /\ Done("shaft_power") =>
          LET a == request.args
          IN  IF NonPositive(a.efficiency) \/ a.efficiency[1] > a.efficiency[2]
              THEN outcome.kind = "raise" /\ outcome.exc = "ValueError"
              ELSE /\ outcome.kind = "return"
                   /\ RMul(outcome.value, a.efficiency) = a.hydraulic_power
                   /\ (a.hydraulic_power = Num(3000) /\ a.efficiency = Rat(3, 4))
                         => outcome.value = Num(4000)
    /\ Done("complete_pump_analysis") =>
          LET eff == AnalysisEfficiency(request.args.pump_specs)
          IN  IF NonPositive(eff) \/ eff[1] > eff[2]
              THEN outcome.kind = "raise" /\ outcome.exc = "ValueError"
              ELSE outcome.kind = "return" /\ outcome.value.efficiency = eff

C10_Witness ==
    /\ Done("complete_pump_analysis")
    /\ AnalysisEfficiency(request.args.pump_specs) = Rat(101, 100)
    /\ outcome.kind = "raise"
    /\ outcome.exc = "ValueError"

\* x >= y on rationals, by cross-multiplication
AtLeast(x, y) == x[1] * y[2] >= y[1] * x[2]

\* C11: cavitation_check reports margin = npsh_available - npsh_required,
\* safe exactly when margin >= safety_margin, and the cavitation-risk status
\* exactly when safe is false
C11_CavitationVerdict ==
    Done("cavitation_check") =>
        LET a == request.args
            r == outcome.value
        IN  /\ outcome.kind = "return"
            /\ RAdd(r.margin, a.npsh_required) = a.npsh_available
            /\ r.safe <=> AtLeast(r.margin, a.safety_margin)
            /\ (r.status = "RIESGO DE CAVITACION") <=> ~r.safe

C11_Witness ==
    /\ Done("cavitation_check")
    /\ request.args.safety_margin = DefaultSafetyMargin
    /\ outcome.value.margin = DefaultSafetyMargin
    /\ outcome.value.safe

\* C12 as stated: SEGURO for every margin >= safety_margin, the low-margin
\* status only for 0 <= margin < 1, the risk status for every margin below
\* the safety margin
C12_TiersAsStated ==
    Done("cavitation_check") =>
        LET sm == request.args.safety_margin
            r  == outcome.value
        IN  /\ AtLeast(r.margin, sm) => r.status = "SEGURO"
            /\ r.status = "ADVERTENCIA: Margen bajo" =>
                  (AtLeast(r.margin, Zero) /\ ~AtLeast(r.margin, One))
            /\ ~AtLeast(r.margin, sm) => r.status = "RIESGO DE CAVITACION"

\* C12 amended: the risk status exactly for margin < safety_margin, the
\* low-margin status exactly for safety_margin <= margin < 1, SEGURO exactly
\* for margin >= safety_margin and margin >= 1
C12_ThreeTiers ==
    Done("cavitation_check") =>
        LET sm == request.args.safety_margin
            r  == outcome.value
        IN  /\ r.status \in {"RIESGO DE CAVITACION", "ADVERTENCIA: Margen bajo", "SEGURO"}
            /\ (r.status = "RIESGO DE CAVITACION") <=> ~AtLeast(r.margin, sm)
            /\ (r.status = "ADVERTENCIA: Margen bajo") <=>
                  (AtLeast(r.margin, sm) /\ ~AtLeast(r.margin, One))
            /\ (r.status = "SEGURO") <=> (AtLeast(r.margin, sm) /\ AtLeast(r.margin, One))

C12_Witness ==
    /\ Done("cavitation_check")
    /\ request.args.safety_margin = DefaultSafetyMargin
    /\ outcome.value.margin = Rat(7, 10)
    /\ outcome.value.status = "ADVERTENCIA: Margen bajo"

\* the band of a specific speed: the number of breakpoints it has reached
Band(ns) == Cardinality({b \in {20, 40, 80, 150, 300} : ns[1] >= b * ns[2]})

\* C13: classify_pump_type names the family of the band of Ns, with
\* breakpoints 20, 40, 80, 150, 300, a breakpoint falling in the higher band
C13_PumpFamilies ==
    Done("classify_pump_type") =>
        /\ outcome.kind = "return"
        /\ outcome.value =
              <<"Centrifuga radial de baja velocidad especifica", "Centrifuga radial",
                "Centrifuga radial-mixta", "Centrifuga de flujo mixto",
                "Centrifuga de flujo axial", "Bomba de flujo axial (helice)">>
                    [Band(request.args.specific_speed) + 1]

C13_Witness ==
    /\ Done("classify_pump_type")
    /\ request.args.specific_speed = Num(300)
    /\ outcome.value = "Bomba de flujo axial (helice)"

\* |pump head - (h_static + k * Q^2)| at sample j of a curve
HeadGap(sys, curve, j) ==
    RAbs(RSub(curve.head[j],
              RAdd(sys.h_static, RMul(sys.k_coefficient, RSq(curve.flow[j])))))

\* C14: operating_point returns flow, head, power and efficiency of one
\* sample of the curve generate_pump_curve gave it, and no sample of that
\* curve has a strictly smaller |pump head - system head|
C14_OperatingPointIsArgMin ==
    \A t \in Threads :
        (thread[t].pc = "done" /\ thread[t].op = "operating_point") =>
            LET curve == heap[thread[t].ret]
                r     == thread[t].result
            IN  \E i \in 1..Len(curve.flow) :
                    /\ \A j \in 1..Len(curve.flow) :
                          AtLeast(HeadGap(thread[t].sys, curve, j),
                                  HeadGap(thread[t].sys, curve, i))
                    /\ r.flow_operating = curve.flow[i]
                    /\ r.head_operating = curve.head[i]
                    /\ r.power_operating = curve.power[i]
                    /\ r.efficiency_operating = curve.efficiency[i]

C14_Witness ==
    \E t \in Threads :
        /\ thread[t].pc = "done"
        /\ thread[t].op = "operating_point"
        /\ thread[t].result.flow_operating = Rat(1, 100)
        /\ thread[t].result.head_operating = Num(30)
        /\ thread[t].result.system_curve[3] = Num(25)

\* the entry of a pressure-class table that carries a name
ClassNamed(classes, name) ==
    classes[CHOOSE i \in 1..Len(classes) : classes[i].name = name]

\* a class is adequate: it is rated for the design pressure and, in the
\* ANSI family, for the temperature
Adequate(specs, design_pressure, temperature, standard) ==
    /\ ~IsNaN(design_pressure)
    /\ AtLeast(specs.max_pressure_bar, design_pressure)
    /\ standard = "ANSI" => (~IsNaN(temperature) /\ AtLeast(specs.max_temp_c, temperature))

\* C15: select_pressure_class reports design pressure = operating pressure
\* x 1.5, and a recommended class is adequate while every class of its
\* family with a smaller pressure rating is not
C15_SmallestAdequateClass ==
    Done("select_pressure_class") =>
        LET a       == request.args
            r       == outcome.value
            design  == RMul(a.operating_pressure, Rat(3, 2))
            classes == PressureClasses(a.standard)
        IN  /\ outcome.kind = "return"
            /\ r.design_pressure = design
            /\ r.status = "OK" =>
                  LET rec == ClassNamed(classes, r.recommended_class)
                  IN  /\ \E i \in 1..Len(classes) : classes[i].name = r.recommended_class
                      /\ Adequate(rec, design, a.temperature, a.standard)
                      /\ \A i \in 1..Len(classes) :
                            RLt(classes[i].max_pressure_bar, rec.max_pressure_bar) =>
                                ~Adequate(classes[i], design, a.temperature, a.standard)

\* a class skipped for its temperature rating, a design pressure exactly on
\* the recommended rating
C15_Witness ==
    /\ Done("select_pressure_class")
    /\ request.args.standard = "ANSI"
    /\ request.args.operating_pressure = Num(34)
    /\ request.args.temperature = Num(261)
    /\ outcome.value.status = "OK"
    /\ outcome.value.design_pressure = Num(51)
    /\ outcome.value.recommended_class = "300"
    /\ Len(outcome.value.all_suitable_classes) = 5

Positive(x) == ~IsNaN(x) /\ x[1] > 0

\* a pipe of dn mm carries the flow at no more than max_velocity, that is
\* dn is at least the diameter d with flow_rate = max_velocity * pi * d^2 / 4
\* (for a positive flow rate and a positive max_velocity)
CarriesFlow(dn, flow_rate, max_velocity) ==
    RLe(flow_rate, RMul(max_velocity, RMul(pi, RSq(Rat(dn, 2000)))))

\* C16: for a positive flow rate and a positive max_velocity, a verdict of
\* status OK recommends the smallest standard size that is at least the
\* required diameter, and the velocity it reports for that size is the flow
\* rate over the area of that size and is at most max_velocity
C16_SmallestSufficientSize ==
    (/\ Done("select_pipe_size")
     /\ Positive(request.args.flow_rate)
     /\ Positive(request.args.max_velocity)
     /\ outcome.kind = "return"
     /\ outcome.value.status = "OK") =>
        LET a == request.args
            r == outcome.value
        IN  /\ \E i \in 1..Len(STANDARD_PIPE_SIZES) : STANDARD_PIPE_SIZES[i] = r.recommended_dn
            /\ CarriesFlow(r.recommended_dn, a.flow_rate, a.max_velocity)
            /\ \A i \in 1..Len(STANDARD_PIPE_SIZES) :
                  STANDARD_PIPE_SIZES[i] < r.recommended_dn =>
                      ~CarriesFlow(STANDARD_PIPE_SIZES[i], a.flow_rate, a.max_velocity)
            /\ RMul(r.actual_velocity, RMul(pi, RSq(Rat(r.recommended_dn, 2000)))) = a.flow_rate
            /\ RLe(r.actual_velocity, a.max_velocity)

\* a required diameter of exactly 100 mm: DN 100 at exactly max_velocity
C16_Witness ==
    /\ Done("select_pipe_size")
    /\ request.args.flow_rate = FlowNeeding(100, Num(2))
    /\ request.args.max_velocity = Num(2)
    /\ outcome.kind = "return"
    /\ outcome.value.status = "OK"
    /\ outcome.value.required_diameter_mm = Num(100)
    /\ outcome.value.recommended_dn = 100
    /\ outcome.value.actual_velocity = Num(2)

\* the verdict record of a selection classifier: status ERROR with a
\* message exactly when no table entry is adequate, status OK otherwise
SelectionVerdict(none_adequate) ==
    /\ outcome.kind = "return"
    /\ outcome.value.status \in {"OK", "ERROR"}
    /\ outcome.value.status = "ERROR" <=> none_adequate
    /\ outcome.value.status = "ERROR" => "message" \in DOMAIN outcome.value

\* C17: select_pressure_class and select_pipe_size never raise: whatever the
\* numbers passed, they return a verdict record whose status is ERROR
\* exactly when no table entry is adequate and OK otherwise
C17_SelectorsNeverThrow ==
    /\ Done("select_pressure_class") =>
          LET a       == request.args
              classes == PressureClasses(a.standard)
          IN  SelectionVerdict(\A i \in 1..Len(classes) :
                                  ~Adequate(classes[i], RMul(a.operating_pressure, Rat(3, 2)),
                                            a.temperature, a.standard))
    /\ Done("select_pipe_size") =>
          /\ outcome.kind = "return"
          /\ LET a == request.args
                 d == RequiredDiameter(a.flow_rate, a.max_velocity)
             IN  SelectionVerdict(\A i \in 1..Len(STANDARD_PIPE_SIZES) :
                                     ~RLe(d, Num(STANDARD_PIPE_SIZES[i])))

\* x lies in [lo, hi]; false for NaN
Within(x, lo, hi) == ~IsNaN(x) /\ AtLeast(x, lo) /\ AtLeast(hi, x)

\* x lies below lo or above hi; false for NaN
Outside(x, lo, hi) == ~IsNaN(x) /\ (~AtLeast(x, lo) \/ ~AtLeast(hi, x))

\* C18: check_velocity reports in_range = (min <= velocity <= max) for the
\* limits of the service; its status is ADVERTENCIA, with warnings, exactly
\* when the velocity is below min or above max; in range the warnings are
\* empty and the status is ACEPTABLE when |velocity - recommended| > 0.5
\* and OPTIMO otherwise
C18_VelocityVerdict ==
    Done("check_velocity") =>
        LET v   == request.args.velocity
            r   == outcome.value
            lim == VelocityLimits(request.args.service_type)
            off == RAbs(RSub(v, lim.recommended))
        IN  /\ outcome.kind = "return"
            /\ r.limits = lim
            /\ r.in_range = Within(v, lim.min, lim.max)
            /\ (r.status = "ADVERTENCIA" /\ r.warnings # <<>>) <=> Outside(v, lim.min, lim.max)
            /\ r.status = "ADVERTENCIA" => r.warnings # <<>>
            /\ r.in_range =>
                  /\ r.warnings = <<>>
                  /\ r.status \in {"ACEPTABLE", "OPTIMO"}
                  /\ r.status = "ACEPTABLE" <=> ~AtLeast(Rat(1, 2), off)

\* in range and exactly 0.5 from the recommended velocity: OPTIMO
C18_Witness ==
    /\ Done("check_velocity")
    /\ request.args.service_type = "Tuberia general"
    /\ request.args.velocity = Rat(5, 2)
    /\ outcome.value.in_range
    /\ outcome.value.status = "OPTIMO"
    /\ outcome.value.warnings = <<>>

\* C19: in every generated curve of at least two samples (BEP flow and BEP
\* head positive), the head never rises from one sample to the next, no
\* head is negative, the first sample is at flow 0 with head 1.15 x BEP
\* head, and a sample at the BEP flow has the BEP head
C19_HeadCurveShape ==
    \A r \in 1..Len(heap) :
        LET curve == heap[r]
            n     == Len(curve.head)
        IN  (n >= 2 /\ Positive(curve.q_bep) /\ Positive(curve.h_bep)) =>
                /\ \A i \in 1..(n - 1) : AtLeast(curve.head[i], curve.head[i + 1])
                /\ \A i \in 1..n : AtLeast(curve.head[i], Zero)
                /\ curve.flow[1] = Zero
                /\ curve.head[1] = RMul(Rat(115, 100), curve.h_bep)
                /\ \A i \in 1..n : curve.flow[i] = curve.q_bep => curve.head[i] = curve.h_bep

\* a four-sample curve: its third sample is the BEP, its head falls strictly
C19_Witness ==
    \E r \in 1..Len(heap) :
        /\ Len(heap[r].head) = 4
        /\ heap[r].flow[3] = heap[r].q_bep
        /\ heap[r].head[3] = Num(30)
        /\ heap[r].head[1] = Rat(345, 10)
        /\ RLt(heap[r].head[4], heap[r].head[3])

\* a call of generate_pump_curve that has returned the dict built from its
\* own arguments
ReturnedOwnCurve(t) ==
    /\ thread[t].pc = "done"
    /\ thread[t].op = "generate_pump_curve"
    /\ LET p == thread[t].args
       IN  heap[thread[t].ret] =
               PumpCurve(p.q_bep, p.h_bep, p.power_bep, p.efficiency_bep, p.num_points)

\* the four sequences of a curve have length n, and its flow samples start
\* at 0 and advance by equal steps
FourSequences(curve, n) ==
    /\ Len(curve.flow) = n /\ Len(curve.head) = n
    /\ Len(curve.power) = n /\ Len(curve.efficiency) = n
    /\ curve.flow[1] = Zero
    /\ \A i \in 1..(n - 2) :
          RSub(curve.flow[i + 2], curve.flow[i + 1]) = RSub(curve.flow[i + 1], curve.flow[i])

\* C20 as stated: for every sample count N, generate_pump_curve returns four
\* sequences of length N whose flow samples are evenly spaced, the first 0
\* and the last 1.5 x BEP flow
C20_EvenFlowsAsStated ==
    \A t \in Threads :
        ReturnedOwnCurve(t) =>
            LET curve == heap[thread[t].ret]
                n     == thread[t].args.num_points
            IN  /\ FourSequences(curve, n)
                /\ curve.flow[n] = RMul(Rat(15, 10), thread[t].args.q_bep)

\* C20: generate_pump_curve returns four sequences of length N whose flow
\* samples are evenly spaced from 0; the last is 1.5 x BEP flow when N >= 2,
\* and the only sample is 0 when N = 1
C20_EvenFlows ==
    \A t \in Threads :
        ReturnedOwnCurve(t) =>
            LET curve == heap[thread[t].ret]
                n     == thread[t].args.num_points
            IN  /\ FourSequences(curve, n)
                /\ n >= 2 => curve.flow[n] = RMul(Rat(15, 10), thread[t].args.q_bep)
                /\ n = 1 => curve.flow = <<Zero>>

\* a four-sample curve returned: flows 0, 0.005, 0.01, 0.015
C20_Witness ==
    \E t \in Threads :
        /\ ReturnedOwnCurve(t)
        /\ thread[t].args.num_points = 4
        /\ heap[thread[t].ret].flow = <<Zero, Rat(1, 200), Rat(1, 100), Rat(3, 200)>>

\* the curve the i-th call of a generate_pump_curve request returned
ReturnedCurve(i) == heap[outcome.value[i]]

\* the calls of a generate_pump_curve request that have returned
ReturnedCalls ==
    IF Done("generate_pump_curve") THEN 1..Len(outcome.value) ELSE {}

\* C21 as stated: whatever BEP efficiency is supplied, every efficiency
\* sample of the curve lies in (0.01, 1.0], and every power sample is
\* defined
C21_EfficiencyAboveOneHundredth ==
    \A c \in ReturnedCalls :
        LET curve == ReturnedCurve(c)
        IN  \A i \in 1..Len(curve.efficiency) :
                /\ RLt(Rat(1, 100), curve.efficiency[i])
                /\ RLe(curve.efficiency[i], One)
                /\ ~IsNaN(curve.power[i])

\* C21: for every BEP efficiency that is a number, every efficiency sample
\* of the curve lies in [0.01, 1.0] (0.01 included), and every power sample
\* is defined: hydraulic power at the sample over the sample's efficiency
C21_EfficiencyClipped ==
    \A c \in ReturnedCalls :
        ~IsNaN(request.args[c].efficiency_bep) =>
            LET curve == ReturnedCurve(c)
            IN  \A i \in 1..Len(curve.efficiency) :
                    /\ RLe(Rat(1, 100), curve.efficiency[i])
                    /\ RLe(curve.efficiency[i], One)
                    /\ ~IsNaN(curve.power[i])
                    /\ RMul(curve.power[i], curve.efficiency[i]) =
                           RMul(RMul(RMul(Rat(9982, 10), Rat(981, 100)), curve.flow[i]),
                                curve.head[i])

\* a BEP efficiency of 0.1: the samples at zero flow and at 1.5 x BEP flow
\* are clipped to exactly 0.01, and a BEP efficiency of 1.5 is clipped to 1
C21_Witness ==
    /\ Done("generate_pump_curve")
    /\ request.args[1].efficiency_bep = Rat(1, 10)
    /\ request.args[1].num_points = 4
    /\ ReturnedCurve(1).efficiency[1] = Rat(1, 100)
    /\ ReturnedCurve(1).efficiency[3] = Rat(1, 10)
    /\ RLt(Zero, ReturnedCurve(1).power[2])

\* C22: two calls of generate_pump_curve whose arguments differ in power_bep
\* only return the same flow, head, efficiency and power sequences, and each
\* power sample is 998.2 * g * flow * head / efficiency of its own sample
C22_PowerBepNotRead ==
    (/\ Done("generate_pump_curve")
     /\ Len(outcome.value) = 2
     /\ request.args[1].power_bep # request.args[2].power_bep
     /\ request.args[2] = [request.args[1] EXCEPT !.power_bep = request.args[2].power_bep]) =>
        LET first  == ReturnedCurve(1)
            second == ReturnedCurve(2)
        IN  /\ first.flow = second.flow
            /\ first.head = second.head
            /\ first.efficiency = second.efficiency
            /\ first.power = second.power
            /\ \A i \in 1..Len(second.power) :
                  second.power[i] =
                      RDiv(RMul(RMul(RMul(Rat(9982, 10), Rat(981, 100)), second.flow[i]),
                                second.head[i]),
                           second.efficiency[i])

\* power_bep 3924 then 9000 with four samples: two dicts, the same curves
C22_Witness ==
    /\ Done("generate_pump_curve")
    /\ Len(outcome.value) = 2
    /\ outcome.value[1] # outcome.value[2]
    /\ request.args[1].power_bep = Num(3924)
    /\ request.args[2].power_bep = Num(9000)
    /\ request.args[1].num_points = 4
    /\ ReturnedCurve(1).power = ReturnedCurve(2).power
    /\ RLt(Zero, ReturnedCurve(2).power[3])

\* the name check_reynolds gives the regime calculate_system names
FlowTypeOf(flow_regime) ==
    CASE flow_regime = "Laminar" -> "LAMINAR"
      [] flow_regime = "Transitional" -> "TRANSICION"
      [] flow_regime = "Turbulent" -> "TURBULENTO"

\* the regime of a Reynolds number by the thresholds 2300 and 4000
RegimeByThresholds(re) ==
    IF ~IsNaN(re) /\ Below(re, 2300) THEN "LAMINAR"
    ELSE IF ~IsNaN(re) /\ Below(re, 4000) THEN "TRANSICION"
    ELSE "TURBULENTO"

\* C23: check_reynolds gives a Reynolds number the regime calculate_system
\* gives it (laminar below 2300, transitional from 2300 and below 4000,
\* turbulent from 4000), and lists concerns for every regime but turbulent
C23_SameRegimes ==
    /\ Done("check_reynolds") =>
          LET re == request.args.reynolds
              r  == outcome.value
          IN  /\ r.flow_type = RegimeByThresholds(re)
              /\ r.flow_type = FlowTypeOf(FlowRegime(re))
              /\ r.concerns = <<>> <=> r.flow_type = "TURBULENTO"
    /\ (Done("calculate_system") /\ outcome.kind = "return") =>
          LET r == check_reynolds(outcome.value.reynolds)
          IN  /\ r.flow_type = FlowTypeOf(outcome.value.flow_regime)
              /\ r.flow_type = RegimeByThresholds(outcome.value.reynolds)
              /\ r.concerns = <<>> <=> outcome.value.flow_regime = "Turbulent"

\* Re exactly 2300: transitional, with concerns
C23_Witness ==
    /\ Done("check_reynolds")
    /\ request.args.reynolds = Num(2300)
    /\ outcome.value.flow_type = "TRANSICION"
    /\ outcome.value.concerns # <<>>

\* the K factors of a list added from its first element on
RECURSIVE KTotal(_)
KTotal(ks) == IF ks = <<>> THEN Zero ELSE RAdd(ks[1], KTotal(Tail(ks)))

\* C24: in a record calculate_system returns, total_head_loss is
\* head_loss_friction + head_loss_minor + elevation_head, elevation_head is
\* the elevation change passed, and head_loss_minor is the sum of
\* K * v^2 / 2g over the K list: 0 for the empty list, the same for a list
\* and its reversal; with an elevation change >= 0 the total is at least
\* friction + minor
C24_TotalHeadLoss ==
    (Done("calculate_system") /\ outcome.kind = "return") =>
        LET a == request.args
            r == outcome.value
            losses == RAdd(r.head_loss_friction, r.head_loss_minor)
        IN  /\ r.elevation_head = a.elevation_change
            /\ r.total_head_loss = RAdd(losses, r.elevation_head)
            /\ r.head_loss_minor =
                   RDiv(RMul(KTotal(a.minor_losses_k), RSq(r.velocity)), Rat(1962, 100))
            /\ a.minor_losses_k = <<>> => r.head_loss_minor = Zero
            /\ (~IsNaN(r.total_head_loss) /\ ~Below(a.elevation_change, 0)) =>
                   RLe(losses, r.total_head_loss)

\* two fittings, a descent of 3 m: the total is below friction + minor
C24_Witness ==
    /\ Done("calculate_system")
    /\ outcome.kind = "return"
    /\ request.args.minor_losses_k = <<Rat(9, 10), Rat(1, 2)>>
    /\ request.args.elevation_change = Num(-3)
    /\ RLt(Zero, outcome.value.head_loss_minor)
    /\ RLt(Zero, outcome.value.head_loss_friction)
    /\ RLt(outcome.value.total_head_loss,
           RAdd(outcome.value.head_loss_friction, outcome.value.head_loss_minor))

\* x multiplied e times by n
RECURSIVE Scaled(_, _, _)
Scaled(x, n, e) == IF e = 0 THEN x ELSE Scaled(RMul(x, n), n, e - 1)

\* a call of an affinity law with positive speeds returned the value scaled
\* by (speed2 / speed1)^e (scaling the result e times by speed1 / speed2
\* gives the value back), and a lower speed gave less of a positive value
ScalesBy(op, e) ==
    (Done(op) /\ Positive(request.args.speed1) /\ Positive(request.args.speed2)) =>
        LET a == request.args
        IN  /\ outcome.kind = "return"
            /\ Scaled(outcome.value, RDiv(a.speed1, a.speed2), e) = a.value1
            /\ (Positive(a.value1) /\ RLt(a.speed2, a.speed1)) =>
                   (Positive(outcome.value) /\ RLt(outcome.value, a.value1))

\* C25: for positive speeds n1 and n2, affinity_laws_flow returns
\* Q * (n2/n1), affinity_laws_head H * (n2/n1)^2 and affinity_laws_power
\* P * (n2/n1)^3; a lower speed strictly lowers a positive flow, head, power
C25_AffinityScalings ==
    /\ ScalesBy("affinity_laws_flow", 1)
    /\ ScalesBy("affinity_laws_head", 2)
    /\ ScalesBy("affinity_laws_power", 3)

\* 3924 W from 1750 rpm to 1450 rpm: 3924 * (29/35)^3
C25_Witness ==
    /\ Done("affinity_laws_power")
    /\ request.args.value1 = Num(3924)
    /\ request.args.speed1 = Num(1750)
    /\ request.args.speed2 = Num(1450)
    /\ outcome.kind = "return"
    /\ outcome.value = Rat(3924 * 24389, 42875)

Closest(sys, curve) ==
    {i \in 1..Len(curve.flow) :
        \A j \in 1..Len(curve.flow) : RLe(HeadGap(sys, curve, i), HeadGap(sys, curve, j))}

\* the least element of a non-empty set of indices
Lowest(S) == CHOOSE i \in S : \A j \in S : i <= j

\* C27: operating_point returns the closest sample of lowest index, which
\* among several closest samples is the one of lowest flow
C27_LowestTiedSample ==
    Done("operating_point") =>
        LET sys   == request.args.system_curve_params
            curve == heap[curve_data]
            first == Lowest(Closest(sys, curve))
            r     == outcome.value
        IN  /\ outcome.kind = "return"
            /\ r.flow_operating = curve.flow[first]
            /\ r.head_operating = curve.head[first]
            /\ r.power_operating = curve.power[first]
            /\ r.efficiency_operating = curve.efficiency[first]
            /\ \A i \in Closest(sys, curve) : RLe(r.flow_operating, curve.flow[i])

\* a system head of 27.1875 m, midway between the third and fourth pump
\* heads (30 and 24.375): the third sample is returned
C27_Witness ==
    /\ Done("operating_point")
    /\ request.args.system_curve_params = [h_static |-> Rat(435, 16), k_coefficient |-> Zero]
    /\ Closest(request.args.system_curve_params, heap[curve_data]) = {3, 4}
    /\ outcome.value.flow_operating = Rat(1, 100)
    /\ outcome.value.head_operating = Num(30)

\* C28: with a static head above the shutoff head 1.15 x h_bep and k >= 0,
\* the system curve is above the pump curve at every sample, and
\* operating_point returns the zero-flow sample (flow 0, the shutoff head,
\* power 0) in a record of the same seven fields as any other
C28_NoIntersectionStillAPoint ==
    (/\ Done("operating_point")
     /\ RLt(RMul(Rat(115, 100), request.args.pump_curve_params.h_bep),
            request.args.system_curve_params.h_static)
     /\ RLe(Zero, request.args.system_curve_params.k_coefficient)) =>
        LET r == outcome.value
        IN  /\ outcome.kind = "return"
            /\ \A i \in 1..Len(r.flow_range) : RLt(r.pump_curve[i], r.system_curve[i])
            /\ r.flow_operating = Zero
            /\ r.head_operating = RMul(Rat(115, 100), request.args.pump_curve_params.h_bep)
            /\ r.power_operating = Zero
            /\ DOMAIN r = {"flow_operating", "head_operating", "power_operating",
                           "efficiency_operating", "system_curve", "pump_curve",
                           "flow_range"}

\* a static head of 35 m over a shutoff head of 34.5 m, four samples
C28_Witness ==
    /\ Done("operating_point")
    /\ request.args.system_curve_params = [h_static |-> Num(35), k_coefficient |-> Num(200000)]
    /\ request.args.pump_curve_params.num_points = 4
    /\ outcome.value.flow_operating = Zero
    /\ outcome.value.head_operating = Rat(345, 10)
    /\ outcome.value.system_curve[4] = Num(80)

\* the Reynolds number calculate_system computes from its arguments
SystemReynolds(a) ==
    reynolds_number(velocity_from_flow(a.flow_rate, a.diameter).value, a.diameter, get_kinematic_viscosity(a.temperature).value).value

\* the call reached its friction-factor branch and took the Colebrook one
ColebrookInvoked ==
    /\ Done("calculate_system")
    /\ Len(outcome.trace) = 6
    /\ outcome.trace[5] = "friction_factor_colebrook"

\* C29 as stated: calculate_system invokes friction_factor_colebrook only
\* with a Reynolds number >= 4000, and never raises ValueError from it
C29_ColebrookOnlyAtLeast4000 ==
    ColebrookInvoked =>
        /\ RLe(Num(4000), SystemReynolds(request.args))
        /\ ~(outcome.kind = "raise" /\ outcome.exc = "ValueError")

\* C29 amended: calculate_system invokes friction_factor_colebrook only
\* with a Reynolds number that is not below 4000 (>= 4000, or NaN for a NaN
\* flow rate), so the call never raises the turbulent-only ValueError: a
\* ValueError of calculate_system comes from before the friction branch
C29_ColebrookNeverBelow4000 ==
    /\ ColebrookInvoked =>
          /\ ~RLt(SystemReynolds(request.args), Num(4000))
          /\ ~(outcome.kind = "raise" /\ outcome.exc = "ValueError")
    /\ (Done("calculate_system") /\ outcome.kind = "raise" /\ outcome.exc = "ValueError") =>
          Len(outcome.trace) < 6

\* a call at Re = 4000 exactly took the Colebrook branch and returned
C29_Witness ==
    /\ ColebrookInvoked
    /\ outcome.kind = "return"
    /\ SystemReynolds(request.args) = Num(4000)

\* C30: a curve record, once built by generate_pump_curve, is never
\* altered: every step of the engine, by any thread and with any
\* arguments, leaves each dict of the heap as it was, so a record returned
\* to a caller keeps the sequences computed from its own arguments
C30_ReturnedRecordFrozen ==
    [][/\ Len(heap') >= Len(heap)
       /\ \A r \in 1..Len(heap) : heap'[r] = heap[r]]_vars

\* a caller holds the record built from its own arguments while a later
\* call with other arguments has stored a different record
C30_Witness ==
    \E t \in Threads :
        /\ ReturnedOwnCurve(t)
        /\ thread[t].ret < curve_data
        /\ heap[curve_data] # heap[thread[t].ret]
        /\ \E u \in Threads \ {t} : thread[u].pc \in {"stored", "search", "done"} /\ thread[u].args # thread[t].args

===========================================================================
